---- MODULE Spec2Model ----
(***************************************************************************)
(* CellML Text <-> CellML XML compiler of cellml-text-editor.js.           *)
(*                                                                         *)
(* Text is a TLA+ string.  The scanner works on the characters of the      *)
(* text, the parser is the recursive descent of CellMLTextParser.ts run    *)
(* as a machine with an explicit call stack (one action per parser         *)
(* function), the serializer and the text generator are operators over     *)
(* element trees.                                                          *)
(***************************************************************************)
EXTENDS Integers, Sequences, FiniteSets, TLC

(***************************************************************************)
(* Characters                                                              *)
(***************************************************************************)
Digits == {"0", "1", "2", "3", "4", "5", "6", "7", "8", "9"}

Letters ==
  {"a", "b", "c", "d", "e", "f", "g", "h", "i", "j", "k", "l", "m",
   "n", "o", "p", "q", "r", "s", "t", "u", "v", "w", "x", "y", "z",
   "A", "B", "C", "D", "E", "F", "G", "H", "I", "J", "K", "L", "M",
   "N", "O", "P", "Q", "R", "S", "T", "U", "V", "W", "X", "Y", "Z", "_"}

\* /\s/ on the characters a source text can hold
Whitespace == {" ", "\n", "\t", "\r", "\f"}

\* input[p] of a 0-based position; "" stands for JavaScript's undefined
CharAt(s, p) == IF p >= 0 /\ p < Len(s) THEN SubSeq(s, p + 1, p + 1) ELSE ""

\* input.slice(from, to) with 0-based, end-exclusive positions
Slice(s, from, to) == SubSeq(s, from + 1, to)

(***************************************************************************)
(* CellMLTextScanner                                                       *)
(***************************************************************************)
TokenType ==
  <<"EOF", "Identifier", "Number", "String",
    "KwDef", "KwModel", "KwComp", "KwEndDef", "KwAs", "KwVar", "KwUnit",
    "KwSel", "KwCase", "KwOtherwise", "KwEndSel",
    "OpAss", "OpPlus", "OpMinus", "OpTimes", "OpDivide", "OpComma",
    "Colon", "SemiColon", "LParam", "RParam", "LBrace", "RBrace",
    "OpEq", "OpNe", "OpLt", "OpLe", "OpGt", "OpGe", "OpAnd", "OpOr">>

getKeywordType(word) ==
  CASE word = "def" -> "KwDef"
    [] word = "model" -> "KwModel"
    [] word = "comp" -> "KwComp"
    [] word = "enddef" -> "KwEndDef"
    [] word = "as" -> "KwAs"
    [] word = "var" -> "KwVar"
    [] word = "unit" -> "KwUnit"
    [] word = "sel" -> "KwSel"
    [] word = "case" -> "KwCase"
    [] word = "otherwise" -> "KwOtherwise"
    [] word = "endsel" -> "KwEndSel"
    [] word = "and" -> "OpAnd"
    [] word = "or" -> "OpOr"
    [] OTHER -> "Identifier"

\* the position after the longest run of characters of class cls from p
RECURSIVE SkipWhile(_, _, _)
SkipWhile(s, p, cls) ==
  IF p < Len(s) /\ CharAt(s, p) \in cls THEN SkipWhile(s, p + 1, cls) ELSE p

\* the position of the next "\n" at or after p, or the end of the text
RECURSIVE SkipToNewline(_, _)
SkipToNewline(s, p) ==
  IF p < Len(s) /\ CharAt(s, p) # "\n" THEN SkipToNewline(s, p + 1) ELSE p

\* skipWhitespace: [pos, newLinesFound] after white space and // comments
\* a comment that takes its line feed with it, uncounted
RECURSIVE skipWhitespaceGreedy(_, _, _)
skipWhitespaceGreedy(s, p, newLinesFound) ==
  IF p >= Len(s) THEN [pos |-> p, newLinesFound |-> newLinesFound]
  ELSE LET c == CharAt(s, p) IN
    IF c \in Whitespace
      THEN skipWhitespaceGreedy(s, p + 1,
                                IF c = "\n" THEN newLinesFound + 1 ELSE newLinesFound)
    ELSE IF c = "/" /\ CharAt(s, p + 1) = "/"
      THEN skipWhitespaceGreedy(s, SkipToNewline(s, p + 2) + 1, newLinesFound)
    ELSE [pos |-> p, newLinesFound |-> newLinesFound]

RECURSIVE skipWhitespace(_, _, _)
skipWhitespace(s, p, newLinesFound) ==
  IF p >= Len(s) THEN [pos |-> p, newLinesFound |-> newLinesFound]
  ELSE LET c == CharAt(s, p) IN
    IF c \in Whitespace
      THEN skipWhitespace(s, p + 1, IF c = "\n" THEN newLinesFound + 1 ELSE newLinesFound)
    ELSE IF c = "/" /\ CharAt(s, p + 1) = "/"
      THEN skipWhitespace(s, SkipToNewline(s, p + 2), newLinesFound)
    ELSE [pos |-> p, newLinesFound |-> newLinesFound]

\* the end of the number literal that starts at p
NumberEnd(s, p) ==
  LET intEnd == SkipWhile(s, p, Digits)
      fracEnd == IF CharAt(s, intEnd) = "." THEN SkipWhile(s, intEnd + 1, Digits) ELSE intEnd
      signEnd == IF CharAt(s, fracEnd + 1) \in {"+", "-"} THEN fracEnd + 2 ELSE fracEnd + 1
  IN IF CharAt(s, fracEnd) \in {"e", "E"} THEN SkipWhile(s, signEnd, Digits) ELSE fracEnd

SymbolType ==
  [c \in {"+", "-", "*", "/", "(", ")", "{", "}", ":", ";", ","} |->
     CASE c = "+" -> "OpPlus" [] c = "-" -> "OpMinus" [] c = "*" -> "OpTimes"
       [] c = "/" -> "OpDivide" [] c = "(" -> "LParam" [] c = ")" -> "RParam"
       [] c = "{" -> "LBrace" [] c = "}" -> "RBrace" [] c = ":" -> "Colon"
       [] c = ";" -> "SemiColon" [] c = "," -> "OpComma"]

\* nextToken: the scanner after advancing one token
RECURSIVE nextToken(_)

\* the token that starts with char at position p of s, next being the
\* character after it; at is the scanner after skipWhitespace
Scan(at, s, p, char, next) ==
  LET Tok(type, value, end) ==
        [at EXCEPT !.pos = end, !.currentToken = type, !.currentValue = value]
      Word(end) == Tok(getKeywordType(Slice(s, p, end)), Slice(s, p, end), end)
      Num(end) == Tok("Number", Slice(s, p, end), end)
  IN
  IF p >= Len(s) THEN [at EXCEPT !.currentToken = "EOF"]
  ELSE IF char \in Letters THEN Word(SkipWhile(s, p, Letters \cup Digits))
  ELSE IF char \in Digits \/ (char = "." /\ next \in Digits) THEN Num(NumberEnd(s, p))
  ELSE IF char = "=" THEN
    IF next = "=" THEN Tok("OpEq", "==", p + 2) ELSE Tok("OpAss", char, p + 1)
  ELSE IF char = "!" THEN
    IF next = "=" THEN Tok("OpNe", "!=", p + 2)
    ELSE nextToken([at EXCEPT !.pos = p + 1, !.currentValue = char])
  ELSE IF char = "<" THEN
    IF next = "=" THEN Tok("OpLe", "<=", p + 2) ELSE Tok("OpLt", char, p + 1)
  ELSE IF char = ">" THEN
    IF next = "=" THEN Tok("OpGe", ">=", p + 2) ELSE Tok("OpGt", char, p + 1)
  ELSE IF char \in DOMAIN SymbolType THEN Tok(SymbolType[char], char, p + 1)
  ELSE nextToken([at EXCEPT !.pos = p + 1, !.currentValue = char])

\* the scanner after skipWhitespace returned sk
Skipped(sc, sk) ==
  Scan([sc EXCEPT !.pos = sk.pos, !.line = sc.line + sk.newLinesFound],
       sc.input, sk.pos, CharAt(sc.input, sk.pos), CharAt(sc.input, sk.pos + 1))

nextToken(sc) == Skipped(sc, skipWhitespace(sc.input, sc.pos, 0))

\* new CellMLTextScanner(input)
NewScanner(text) ==
  nextToken([input |-> text, pos |-> 0, line |-> 1, length |-> Len(text),
             currentToken |-> "EOF", currentValue |-> ""])

(***************************************************************************)
(* Element trees (the DOM facility the parser builds on)                   *)
(***************************************************************************)
CELLML_NS == "http://www.cellml.org/cellml/2.0#"

MATHML_NS == "http://www.w3.org/1998/Math/MathML"

\* JavaScript's null and undefined, and a string value
Null == [type |-> "null"]

Undefined == [type |-> "undefined"]

Str(s) == [type |-> "string", value |-> s]

\* JavaScript truthiness of a string-or-null value
Truthy(v) == v.type = "string" /\ v.value # ""

createElementNS(ns, name) ==
  [ns |-> ns, tag |-> name, attrs |-> <<>>, text |-> "", kids |-> <<>>]

hasAttribute(node, name) == \E i \in 1..Len(node.attrs) : node.attrs[i].name = name

\* setAttribute keeps the position of an attribute that is already there
setAttribute(node, name, value) ==
  IF hasAttribute(node, name)
    THEN [node EXCEPT !.attrs =
            [i \in 1..Len(node.attrs) |->
               IF node.attrs[i].name = name THEN [name |-> name, value |-> value]
               ELSE node.attrs[i]]]
    ELSE [node EXCEPT !.attrs = Append(node.attrs, [name |-> name, value |-> value])]

\* getAttribute: the value, or "" for null (every caller tests truthiness)
getAttribute(node, name) ==
  IF hasAttribute(node, name)
    THEN node.attrs[CHOOSE i \in 1..Len(node.attrs) : node.attrs[i].name = name].value
    ELSE ""

\* the child put before the children that are there
insertFirst(node, child) == [node EXCEPT !.kids = <<child>> \o node.kids]

appendChild(node, child) == [node EXCEPT !.kids = Append(node.kids, child)]

setTextContent(node, text) == [node EXCEPT !.text = text, !.kids = <<>>]

(***************************************************************************)
(* CellMLTextParser: helpers                                               *)
(***************************************************************************)
\* the numeric value of a TokenType member
TokenCode(type) == (CHOOSE i \in 1..Len(TokenType) : TokenType[i] = type) - 1

\* constructor: the attribute name equations are tagged with
Constructor(options) ==
  IF options.sourceLineAttribute = Undefined THEN Str("data-source-location")
  ELSE options.sourceLineAttribute

\* a scanner together with the values expectValue returned and the
\* exception thrown so far, if any
Ok(sc) == [sc |-> sc, ok |-> TRUE, msg |-> "", values |-> <<>>]

Fail(sc, msg) == [sc |-> sc, ok |-> FALSE, msg |-> msg, values |-> <<>>]

expect(m, type) ==
  IF m.sc.currentToken # type
    THEN [m EXCEPT !.ok = FALSE,
                   !.msg = "Syntax Error: Expected " \o type \o " but found '"
                             \o m.sc.currentValue \o "'"]
    ELSE [m EXCEPT !.sc = nextToken(m.sc)]

expectValue(m, type) ==
  IF m.sc.currentToken # type
    THEN [m EXCEPT !.ok = FALSE,
                   !.msg = "Expected value of type " \o type \o ", got "
                             \o ToString(TokenCode(m.sc.currentToken))]
    ELSE [m EXCEPT !.sc = nextToken(m.sc), !.values = Append(@, m.sc.currentValue)]

\* the statements a parser function runs between two calls
E(type) == [stmt |-> "expect", type |-> type]

V(type) == [stmt |-> "expectValue", type |-> type]

N == [stmt |-> "nextToken", type |-> ""]

\* if (token === type) nextToken()
A(type) == [stmt |-> "accept", type |-> type]

Execute(m, st) ==
  IF st.stmt = "expect" THEN expect(m, st.type)
  ELSE IF st.stmt = "expectValue" THEN expectValue(m, st.type)
  ELSE IF st.stmt = "accept" /\ m.sc.currentToken # st.type THEN m
  ELSE [m EXCEPT !.sc = nextToken(m.sc)]

\* the statements in order, up to the first that throws
RECURSIVE Run(_, _)
Run(m, statements) ==
  IF statements = <<>> \/ ~m.ok THEN m
  ELSE Run(Execute(m, Head(statements)), Tail(statements))

\* a catch clause that reports nothing
ParseErrorUnreported(line, message) == [xml |-> Null, errors |-> <<>>]

\* the catch clause of parse
ParseError(line, message) ==
  [xml |-> Null,
   errors |-> <<[line |-> line,
                 message |-> IF message = "" THEN "Unknown parsing error" ELSE message]>>]

\* an apply with the operands in the other order
BinaryApplySwapped(tagName, left, right) ==
  [ns |-> MATHML_NS, tag |-> "apply", attrs |-> <<>>, text |-> "",
   kids |-> <<createElementNS(MATHML_NS, tagName), right, left>>]

\* apply(op, left, right) of parseCondition, parseComparison, parseExpression, parseTerm
BinaryApply(tagName, left, right) ==
  appendChild(appendChild(appendChild(createElementNS(MATHML_NS, "apply"),
    createElementNS(MATHML_NS, tagName)), left), right)

\* a unary minus that puts the sign into a number literal
UnaryMinusSigned(child) ==
  IF child.tag = "cn" THEN [child EXCEPT !.text = "-" \o @]
  ELSE [ns |-> MATHML_NS, tag |-> "apply", attrs |-> <<>>, text |-> "",
        kids |-> <<createElementNS(MATHML_NS, "minus"), child>>]

\* apply(minus, child) of parseFactor
UnaryMinusApply(child) ==
  appendChild(appendChild(createElementNS(MATHML_NS, "apply"),
    createElementNS(MATHML_NS, "minus")), child)

isComparisonToken(t) == t \in {"OpEq", "OpNe", "OpLt", "OpLe", "OpGt", "OpGe"}

\* <= taken for <
ComparisonTagLoose(opToken) ==
  CASE opToken = "OpEq" -> "eq"
    [] opToken = "OpNe" -> "neq"
    [] opToken \in {"OpLt", "OpLe"} -> "lt"
    [] opToken = "OpGt" -> "gt"
    [] opToken = "OpGe" -> "geq"
    [] OTHER -> ""

\* the switch of parseComparison
ComparisonTag(opToken) ==
  CASE opToken = "OpEq" -> "eq"
    [] opToken = "OpNe" -> "neq"
    [] opToken = "OpLt" -> "lt"
    [] opToken = "OpLe" -> "leq"
    [] opToken = "OpGt" -> "gt"
    [] opToken = "OpGe" -> "geq"
    [] opToken = "OpAnd" -> "and"
    [] OTHER -> ""

\* the value of the source-location attribute
LocationValue(startLine, endLine) ==
  ToString(startLine) \o (IF endLine # startLine THEN "-" \o ToString(endLine) ELSE "")

\* the equation apply built by parseMathEquation
EquationApply(attr, startLine, endLine, lhsNode, rhsNode) ==
  LET withEq == appendChild(createElementNS(MATHML_NS, "apply"), createElementNS(MATHML_NS, "eq"))
      tagged == IF Truthy(attr)
                  THEN setAttribute(withEq, attr.value, LocationValue(startLine, endLine))
                  ELSE withEq
  IN appendChild(appendChild(tagged, lhsNode), rhsNode)

\* parent.getElementsByTagNameNS(MATHML_NS, 'math')[0] as an index into the
\* children of a component, 0 when there is none: the children of a component
\* are variable elements, which have no children, and math elements, so the
\* first math element in document order is the first child that is one
FirstMath(comp) ==
  LET found == {i \in 1..Len(comp.kids) :
                  comp.kids[i].ns = MATHML_NS /\ comp.kids[i].tag = "math"}
  IN IF found = {} THEN 0 ELSE CHOOSE i \in found : \A j \in found : i <= j

\* 'init' and 'interface' are the property keys parseVariable maps
\* every property set under its own key
MapPropertyVerbatim(variable, prop, val) == setAttribute(variable, prop, val)

MapProperty(variable, prop, val) ==
  IF prop = "init" THEN setAttribute(variable, "initial_value", val)
  ELSE IF prop = "interface" THEN setAttribute(variable, "interface", val)
  ELSE variable

\* the diff apply parseFunctionCall builds for ode(dep, indep)
\* the dependent variable put before the bvar
DiffApplyDepFirst(dep, indep) ==
  LET bvar == appendChild(createElementNS(MATHML_NS, "bvar"), indep)
  IN appendChild(appendChild(appendChild(createElementNS(MATHML_NS, "apply"),
                                         createElementNS(MATHML_NS, "diff")), dep), bvar)

DiffApply(dep, indep) ==
  appendChild(appendChild(appendChild(createElementNS(MATHML_NS, "apply"),
    createElementNS(MATHML_NS, "diff")),
    appendChild(createElementNS(MATHML_NS, "bvar"), indep)), dep)

\* piece(value, condition) of parsePiecewise
Piece(value, condition) ==
  appendChild(appendChild(createElementNS(MATHML_NS, "piece"), value), condition)

(***************************************************************************)
(* serialize: element tree -> XML text.  The XML text is kept as the tree  *)
(* of its elements: qualified tag name, the attributes that are written,   *)
(* in the order they are written, the text that is written, and the child  *)
(* elements that are written.                                              *)
(***************************************************************************)
RECURSIVE TrimStart(_)
TrimStart(s) ==
  IF Len(s) > 0 /\ SubSeq(s, 1, 1) \in Whitespace THEN TrimStart(SubSeq(s, 2, Len(s))) ELSE s

RECURSIVE trimEnd(_)
trimEnd(s) ==
  IF Len(s) > 0 /\ SubSeq(s, Len(s), Len(s)) \in Whitespace
    THEN trimEnd(SubSeq(s, 1, Len(s) - 1)) ELSE s

Trim(s) == TrimStart(trimEnd(s))

\* the attributes whose name is not in dropped, in order
RECURSIVE SelectAttrs(_, _)
SelectAttrs(attrs, dropped) ==
  IF attrs = <<>> THEN <<>>
  ELSE (IF Head(attrs).name \in dropped THEN <<>> ELSE <<Head(attrs)>>)
         \o SelectAttrs(Tail(attrs), dropped)

\* a serializer that writes every attribute
serializeEveryProp(node, attr) ==
  node.attrs \o
    (IF node.tag = "model" /\ ~hasAttribute(node, "xmlns")
       THEN <<[name |-> "xmlns", value |-> CELLML_NS]>>
     ELSE IF node.tag = "math" /\ ~hasAttribute(node, "xmlns")
       THEN <<[name |-> "xmlns", value |-> MATHML_NS],
              [name |-> "xmlns:cellml", value |-> CELLML_NS]>>
     ELSE <<>>)

\* the attributes serialize writes for a node: all but the source-location
\* attribute, then the namespace declarations of model and math
serializeProps(node, attr) ==
  LET kept == SelectAttrs(node.attrs, IF Truthy(attr) THEN {attr.value} ELSE {})
      xmlns ==
        IF node.tag = "model" /\ ~hasAttribute(node, "xmlns")
          THEN <<[name |-> "xmlns", value |-> CELLML_NS]>>
        ELSE IF node.tag = "math" /\ ~hasAttribute(node, "xmlns")
          THEN <<[name |-> "xmlns", value |-> MATHML_NS],
                 [name |-> "xmlns:cellml", value |-> CELLML_NS]>>
        ELSE <<>>
  IN kept \o xmlns

\* node.textContent: the text of the node and of its descendants
RECURSIVE textContent(_)
textContent(node) ==
  LET RECURSIVE Cat(_)
      Cat(ks) == IF ks = <<>> THEN "" ELSE textContent(Head(ks)) \o Cat(Tail(ks))
  IN node.text \o Cat(node.kids)

RECURSIVE serialize(_, _)
serialize(node, attr) ==
  LET props == serializeProps(node, attr)
      hasElementChildren == node.kids # <<>>
      text == Trim(textContent(node))
  IN
  IF node.kids = <<>> /\ node.text = "" /\ text = ""
    THEN [tag |-> node.tag, attrs |-> props, text |-> "", kids |-> <<>>]
  ELSE IF ~hasElementChildren
    THEN [tag |-> node.tag, attrs |-> props, text |-> text, kids |-> <<>>]
  ELSE [tag |-> node.tag, attrs |-> props, text |-> "",
        kids |-> [i \in 1..Len(node.kids) |-> serialize(node.kids[i], attr)]]

\* the string parse returns on success: the XML declaration and the root
XmlText(root) ==
  [type |-> "xml", declaration |-> "<?xml version=\"1.0\" encoding=\"UTF-8\"?>",
   root |-> root]

\* the result parse returns on success
ParseSuccess(root, attr) == [xml |-> XmlText(serialize(root, attr)), errors |-> <<>>]

(***************************************************************************)
(* CellMLTextGenerator: XML text -> CellML Text                            *)
(***************************************************************************)
\* DOMParser.parseFromString: the element tree of an XML text; an element
\* without prefix is in the namespace of the nearest xmlns declaration
RECURSIVE parseFromString(_, _)
parseFromString(x, inherited) ==
  LET ns == IF hasAttribute(x, "xmlns") THEN getAttribute(x, "xmlns") ELSE inherited
  IN [ns |-> ns, tag |-> x.tag, attrs |-> x.attrs, text |-> x.text,
      kids |-> [i \in 1..Len(x.kids) |-> parseFromString(x.kids[i], ns)]]

\* the descendants of a node in document order
RECURSIVE Descendants(_)
Descendants(node) ==
  LET RECURSIVE Walk(_)
      Walk(ks) == IF ks = <<>> THEN <<>>
                  ELSE <<Head(ks)>> \o Descendants(Head(ks)) \o Walk(Tail(ks))
  IN Walk(node.kids)

RECURSIVE SelectNodes(_, _, _)
SelectNodes(nodes, nss, tag) ==
  IF nodes = <<>> THEN <<>>
  ELSE (IF Head(nodes).tag = tag /\ Head(nodes).ns \in nss THEN <<Head(nodes)>> ELSE <<>>)
         \o SelectNodes(Tail(nodes), nss, tag)

\* getElementsByTagName(tag) matches the name in every namespace,
\* getElementsByTagNameNS(ns, tag) in one
AnyNS == {CELLML_NS, MATHML_NS, ""}

getElementsByTagName(node, tag) == SelectNodes(Descendants(node), AnyNS, tag)

getElementsByTagNameNS(node, ns, tag) == SelectNodes(Descendants(node), {ns}, tag)

RECURSIVE Repeat(_, _)
Repeat(s, n) == IF n <= 0 THEN "" ELSE s \o Repeat(s, n - 1)

RECURSIVE Join(_, _)
Join(strs, sep) ==
  IF strs = <<>> THEN ""
  ELSE IF Len(strs) = 1 THEN strs[1]
  ELSE strs[1] \o sep \o Join(Tail(strs), sep)

RECURSIVE Concat(_)
Concat(strs) == IF strs = <<>> THEN "" ELSE Head(strs) \o Concat(Tail(strs))

\* standardIndent of a generator constructed without options
standardIndent == "  "

\* indent() at an indent level
indent(indentLevel) == Repeat(standardIndent, indentLevel)

\* what append(str) adds to the output
append(str, indentLevel) == indent(indentLevel) \o str \o "\n"

\* ${x} of a value that may be undefined or null
Template(v, missing) == IF v = Null THEN missing ELSE v.value

\* args[i] (0-based) inside a template string
Arg(args, i) == IF i < Len(args) THEN args[i + 1] ELSE "undefined"

\* getAttribute, with null kept apart from ""
attribute(node, name) ==
  IF hasAttribute(node, name) THEN Str(getAttribute(node, name)) ELSE Null

RECURSIVE gen_parseMathNode(_, _)
RECURSIVE gen_parseApply(_, _)
RECURSIVE gen_parsePiecewise(_, _)

\* parseMathNode of a node, or of undefined (Null); the e-notation branch
\* needs a type attribute, which no element of a parser result carries
gen_parseMathNode(node, indentLevel) ==
  IF node = Null THEN ""
  ELSE IF node.tag = "apply" THEN gen_parseApply(node, indentLevel)
  ELSE IF node.tag = "ci" THEN Trim(textContent(node))
  ELSE IF node.tag = "cn" THEN
    LET text == Trim(textContent(node))
        value == IF text = "" THEN "0" ELSE text
        units == getAttribute(node, "cellml:units")
    IN IF units # "" THEN value \o " {units: " \o units \o "}" ELSE value
  ELSE IF node.tag = "piecewise" THEN gen_parsePiecewise(node, indentLevel)
  ELSE IF node.tag = "pi" THEN "pi"
  ELSE IF node.tag = "bvar" THEN ""
  ELSE "/* Unsupported MathML node: " \o node.tag \o " */"

\* children[i] (0-based), Null for undefined
Child(node, i) == IF i < Len(node.kids) THEN node.kids[i + 1] ELSE Null

\* the first element of a sequence of nodes whose tag is (not) in tags
FirstWhere(nodes, tags, member) ==
  LET found == {i \in 1..Len(nodes) : (nodes[i].tag \in tags) = member}
  IN IF found = {} THEN Null ELSE nodes[CHOOSE i \in found : \A j \in found : i <= j]

gen_parseApply(applyNode, indentLevel) ==
  LET children == applyNode.kids
      op == children[1].tag
      args == [i \in 1..(Len(children) - 1) |-> gen_parseMathNode(children[i + 1], indentLevel)]
      a0 == Arg(args, 0)
      a1 == Arg(args, 1)
  IN
  IF children = <<>> THEN ""
  ELSE IF op = "plus" THEN "(" \o Join(args, " + ") \o ")"
  ELSE IF op = "minus" THEN
    IF Len(args) = 1 THEN "-" \o a0 ELSE "(" \o a0 \o " - " \o a1 \o ")"
  ELSE IF op = "times" THEN "(" \o Join(args, " * ") \o ")"
  ELSE IF op = "divide" THEN "(" \o a0 \o " / " \o a1 \o ")"
  ELSE IF op = "eq" THEN a0 \o " == " \o a1
  ELSE IF op = "neq" THEN a0 \o " != " \o a1
  ELSE IF op = "lt" THEN a0 \o " < " \o a1
  ELSE IF op = "leq" THEN a0 \o " <= " \o a1
  ELSE IF op = "gt" THEN a0 \o " > " \o a1
  ELSE IF op = "geq" THEN a0 \o " >= " \o a1
  ELSE IF op = "and" THEN Join(args, " and ")
  ELSE IF op = "or" THEN Join(args, " or ")
  ELSE IF op = "diff" THEN
    LET bvar == FirstWhere(children, {"bvar"}, TRUE)
        dependent == FirstWhere(children, {"diff", "bvar"}, FALSE)
        first == IF bvar = Null THEN Null ELSE Child(bvar, 0)
        content == IF first = Null THEN "" ELSE textContent(first)
        indep == IF content = "" THEN "t" ELSE content
        dep == IF dependent # Null THEN gen_parseMathNode(dependent, indentLevel)
               ELSE "unknown"
    IN "ode(" \o dep \o ", " \o indep \o ")"
  ELSE IF op \in {"sin", "cos", "tan", "exp", "ln", "log"} THEN op \o "(" \o a0 \o ")"
  ELSE IF op = "root" THEN "sqrt(" \o a0 \o ")"
  ELSE op \o "(" \o Join(args, ", ") \o ")"

gen_parsePiecewise(node, indentLevel) ==
  LET children == node.kids
      Line(child) ==
        IF child.tag = "piece"
          THEN <<standardIndent \o "case " \o gen_parseMathNode(Child(child, 1), indentLevel)
                   \o ": " \o gen_parseMathNode(Child(child, 0), indentLevel) \o ";">>
        ELSE IF child.tag = "otherwise"
          THEN <<standardIndent \o "otherwise: "
                   \o gen_parseMathNode(Child(child, 0), indentLevel) \o ";">>
        ELSE <<>>
      RECURSIVE Pieces(_)
      Pieces(ks) == IF ks = <<>> THEN <<>> ELSE Line(Head(ks)) \o Pieces(Tail(ks))
  IN "sel\n" \o indent(indentLevel) \o Join(Pieces(children), "\n" \o indent(indentLevel))
       \o "\n" \o indent(indentLevel) \o "endsel"

\* processMath that writes an equation with ==, as it writes a comparison
processMathEquality(math, indentLevel) ==
  LET Statement(child) ==
        LET isEquation == child.tag = "apply" /\ child.kids # <<>> /\ child.kids[1].tag = "eq"
            expr == gen_parseMathNode(child, indentLevel)
        IN IF expr # "" THEN append(expr \o ";", indentLevel) ELSE ""
  IN Concat([i \in 1..Len(math.kids) |-> Statement(math.kids[i])])

processMath(math, indentLevel) ==
  LET Statement(child) ==
        LET isEquation == child.tag = "apply" /\ child.kids # <<>> /\ child.kids[1].tag = "eq"
            lhs == gen_parseMathNode(Child(child, 1), indentLevel)
            rhs == gen_parseMathNode(Child(child, 2), indentLevel)
            expr == gen_parseMathNode(child, indentLevel)
        IN IF isEquation THEN append(lhs \o " = " \o rhs \o ";", indentLevel)
           ELSE IF expr # "" THEN append(expr \o ";", indentLevel)
           ELSE ""
  IN Concat([i \in 1..Len(math.kids) |-> Statement(math.kids[i])])

processVariable(v, indentLevel) ==
  LET name == Template(attribute(v, "name"), "null")
      units == Template(attribute(v, "units"), "null")
      initial == getAttribute(v, "initial_value")
      inf == getAttribute(v, "interface")
      attributes == (IF initial # "" THEN <<"init: " \o initial>> ELSE <<>>)
                      \o (IF inf # "" THEN <<"interface: " \o inf>> ELSE <<>>)
      line == "var " \o name \o ": " \o units
  IN append(line \o (IF Len(attributes) > 0 THEN " {" \o Join(attributes, ", ") \o "}" ELSE "")
              \o ";", indentLevel)

processComponent(component, indentLevel) ==
  LET attr == getAttribute(component, "name")
      name == IF attr # "" THEN attr ELSE "unnamed_component"
      vars == getElementsByTagName(component, "variable")
      maths == getElementsByTagNameNS(component, MATHML_NS, "math")
  IN append("def comp " \o name \o " as", indentLevel)
       \o Concat([i \in 1..Len(vars) |-> processVariable(vars[i], indentLevel + 1)])
       \o Concat([i \in 1..Len(maths) |-> processMath(maths[i], indentLevel + 1)])
       \o append("enddef;", indentLevel)
       \o append("", indentLevel)

processUnits(unit, indentLevel) ==
  LET attr == getAttribute(unit, "name")
      name == IF attr # "" THEN attr ELSE "unnamed_units"
      children == getElementsByTagName(unit, "unit")
      Line(u) ==
        LET prefix == getAttribute(u, "prefix")
            unitsRef == Template(attribute(u, "units"), "null")
            exponent == getAttribute(u, "exponent")
            multiplier == getAttribute(u, "multiplier")
        IN "unit " \o unitsRef
             \o (IF prefix # "" THEN " {prefix: " \o prefix \o "}" ELSE "")
             \o (IF exponent # "" THEN " {exponent: " \o exponent \o "}" ELSE "")
             \o (IF multiplier # "" THEN " {multiplier: " \o multiplier \o "}" ELSE "")
             \o ";"
  IN append("def unit " \o name \o " as", indentLevel)
       \o Concat([i \in 1..Len(children) |-> append(Line(children[i]), indentLevel + 1)])
       \o append("enddef;", indentLevel)
       \o append("", indentLevel)

processModel(model) ==
  LET attr == getAttribute(model, "name")
      name == IF attr # "" THEN attr ELSE "unnamed_model"
      \* the units elements whose parent is the model itself
      units == SelectNodes(model.kids, AnyNS, "units")
      components == getElementsByTagName(model, "component")
      body == append("def model " \o name \o " as", 0)
                \o Concat([i \in 1..Len(units) |-> processUnits(units[i], 1)])
                \o Concat([i \in 1..Len(components) |-> processComponent(components[i], 1)])
  IN trimEnd(body) \o "\n" \o append("enddef;", 0)

\* an XML string that is not well-formed: parseFromString gives a document
\* with a parsererror element
Malformed == [type |-> "malformed"]

\* the try block of generate after the fields are reset, for the XML text of
\* a parser result or a string that is not well-formed: the output it
\* builds, or the message of the Error it throws
tryGenerate(xml) ==
  IF xml = Malformed THEN [ok |-> FALSE, message |-> "XML Parsing Error"]
  ELSE
    LET root == parseFromString(xml.root, "")
        models == SelectNodes(<<root>> \o Descendants(root), {CELLML_NS}, "model")
    IN IF models = <<>> THEN [ok |-> FALSE, message |-> "No CellML 2.0 Model found"]
       ELSE [ok |-> TRUE, output |-> processModel(models[1])]

\* what generate(xmlString) returns on a new generator
generate(xml) ==
  LET try == tryGenerate(xml)
  IN IF try.ok THEN try.output ELSE "// Error generating text: " \o try.message

\* the fields of a new CellMLTextGenerator
NewGenerator == [output |-> "", indentLevel |-> 0]

\* generate that goes on from the fields the last call left
generateUnreset(g, xml) ==
  LET try == tryGenerate(xml)
  IN IF try.ok
       THEN [fields |-> [g EXCEPT !.output = @ \o try.output],
             returned |-> g.output \o try.output]
       ELSE [fields |-> g, returned |-> "// Error generating text: " \o try.message]

\* generate(xmlString) on a generator with the fields g: the fields it leaves
\* and the string it returns
generateCall(g, xml) ==
  generateUnreset([g EXCEPT !.output = "", !.indentLevel = 0], xml)

(***************************************************************************)
(* CellMLLatexGenerator: MathML element -> LaTeX.  The repository holds    *)
(* two classes of this name: the one of src/lib (the lib_ operators) and   *)
(* the one with the PRECEDENCE table (the latex_ operators).               *)
(***************************************************************************)
greek ==
  {"alpha", "beta", "gamma", "delta", "epsilon", "zeta", "eta", "theta", "iota", "kappa",
   "lambda", "mu", "nu", "xi", "omicron", "pi", "rho", "sigma", "tau", "upsilon", "phi",
   "chi", "psi", "omega"}

\* name.split('_')
RECURSIVE SplitFrom(_, _, _)
SplitFrom(name, from, p) ==
  IF p >= Len(name) THEN <<Slice(name, from, p)>>
  ELSE IF CharAt(name, p) = "_" THEN <<Slice(name, from, p)>> \o SplitFrom(name, p + 1, p + 1)
  ELSE SplitFrom(name, from, p + 1)

split(name) == SplitFrom(name, 0, 0)

includes(name, char) == \E p \in 0..(Len(name) - 1) : CharAt(name, p) = char

UpperCase == "ABCDEFGHIJKLMNOPQRSTUVWXYZ"

LowerCase == "abcdefghijklmnopqrstuvwxyz"

RECURSIVE toLowerCase(_)
toLowerCase(text) ==
  IF text = "" THEN ""
  ELSE LET c == CharAt(text, 0)
           at == {i \in 1..Len(UpperCase) : SubSeq(UpperCase, i, i) = c}
       IN (IF at = {} THEN c ELSE LET i == CHOOSE j \in at : TRUE IN SubSeq(LowerCase, i, i))
            \o toLowerCase(Slice(text, 1, Len(text)))

\* a thrown TypeError, and a returned string
TypeError(message) == [type |-> "throw", message |-> message]

\* firstElementChild, Null when there is none
firstElementChild(node) == Child(node, 0)

\* parts[i] (0-based) where undefined and "" are both falsy: "" for either
Part(parts, i) == IF i < Len(parts) THEN parts[i + 1] ELSE ""

(* ---- src/lib/CellMLLatexGenerator.ts ---- *)
lib_parseIdentifier(name) ==
  IF name \in greek THEN "\\" \o name
  ELSE IF includes(name, "_") THEN
    LET parts == split(name)
        adjustedName == IF parts[1] \in greek THEN "\\" \o parts[1] ELSE parts[1]
    IN adjustedName \o "_{" \o Join(Tail(parts), "_") \o "}"
  ELSE name

RECURSIVE lib_parseNode(_)
RECURSIVE lib_parseApply(_)
RECURSIVE lib_parsePiecewise(_)

lib_parseNode(node) ==
  IF node = Null THEN ""
  ELSE IF node.tag = "apply" THEN lib_parseApply(node)
  ELSE IF node.tag = "ci" THEN lib_parseIdentifier(textContent(node))
  ELSE IF node.tag = "cn" THEN (IF textContent(node) = "" THEN "0" ELSE textContent(node))
  ELSE IF node.tag = "piecewise" THEN lib_parsePiecewise(node)
  ELSE ""

lib_parseApply(node) ==
  LET children == node.kids
      op == IF children = <<>> THEN "undefined" ELSE children[1].tag
      args == [i \in 1..(Len(children) - 1) |-> lib_parseNode(children[i + 1])]
      bvar == FirstWhere(children, {"bvar"}, TRUE)
      dep == FirstWhere(children, {"diff", "bvar"}, FALSE)
  IN IF op = "plus" THEN Join(args, " + ")
     ELSE IF op = "minus" THEN
       (IF Len(args) = 1 THEN "-" \o args[1] ELSE Arg(args, 0) \o " - " \o Arg(args, 1))
     ELSE IF op = "times" THEN Join(args, " \\cdot ")
     ELSE IF op = "divide" THEN "\\frac{" \o Arg(args, 0) \o "}{" \o Arg(args, 1) \o "}"
     ELSE IF op = "eq" THEN Arg(args, 0) \o " = " \o Arg(args, 1)
     ELSE IF op = "power" THEN "{" \o Arg(args, 0) \o "}^{" \o Arg(args, 1) \o "}"
     ELSE IF op = "root" THEN "\\sqrt{" \o Arg(args, 0) \o "}"
     ELSE IF op = "diff" THEN
       "\\frac{d" \o (IF dep # Null THEN lib_parseNode(dep) ELSE "y")
         \o "}{d" \o (IF bvar # Null THEN lib_parseNode(firstElementChild(bvar)) ELSE "x") \o "}"
     ELSE IF op \in {"sin", "cos", "tan", "exp", "log", "ln"} THEN
       "\\" \o op \o "\\left(" \o Arg(args, 0) \o "\\right)"
     ELSE "\\text{" \o op \o "}(" \o Join(args, ", ") \o ")"

lib_parsePiecewise(node) ==
  LET Content(child) ==
        IF child.tag = "piece" THEN
          lib_parseNode(Child(child, 0)) \o " & \\text{if } " \o lib_parseNode(Child(child, 1))
            \o " \\\\ "
        ELSE IF child.tag = "otherwise" THEN
          lib_parseNode(Child(child, 0)) \o " & \\text{otherwise}"
        ELSE ""
  IN "\\begin{cases} " \o Concat([i \in 1..Len(node.kids) |-> Content(node.kids[i])])
       \o " \\end{cases}"

\* convert of an element, or of the null a <math> without children hands on
RECURSIVE lib_convert(_)
lib_convert(mathMLNode) ==
  IF mathMLNode = Null THEN TypeError("Cannot read properties of null (reading 'localName')")
  ELSE IF mathMLNode.tag = "math" THEN lib_convert(firstElementChild(mathMLNode))
  ELSE Str(lib_parseNode(mathMLNode))

(* ---- the CellMLLatexGenerator with the PRECEDENCE table ---- *)
PRECEDENCE ==
  [atomic |-> 100, func |-> 90, power |-> 80, times |-> 70, divide |-> 70, plus |-> 60,
   minus |-> 60, rel |-> 50, unknown |-> 0]

\* PRECEDENCE[op] || PRECEDENCE.func
myPrecedence(op) ==
  IF op \in DOMAIN PRECEDENCE /\ PRECEDENCE[op] # 0 THEN PRECEDENCE[op] ELSE PRECEDENCE.func

ignoreTag(tag) == tag \in {"bvar"}

escapeGreek(text) == IF toLowerCase(text) \in greek THEN "\\" \o text ELSE text

latex_parseIdentifier(name) ==
  IF ~includes(name, "_") THEN escapeGreek(name)
  ELSE
    LET parts == split(name)
        base == escapeGreek(Part(parts, 0))
        sub1 == (IF Part(parts, 1) # "" THEN <<Part(parts, 1)>> ELSE <<>>)
                  \o (IF Len(parts) > 4 THEN SubSeq(parts, 5, Len(parts)) ELSE <<>>)
        single == Len(parts) = 3 /\ Len(Part(parts, 2)) = 1
        subParts == IF single THEN Append(sub1, escapeGreek(Part(parts, 2))) ELSE sub1
        superBlock ==
          IF ~single /\ Part(parts, 2) # "" THEN
            escapeGreek(Part(parts, 2))
              \o (IF Part(parts, 3) # "" THEN "_{" \o escapeGreek(Part(parts, 3)) \o "}" ELSE "")
          ELSE ""
        subBlock == Join([i \in 1..Len(subParts) |-> escapeGreek(subParts[i])], ",")
    IN base \o (IF subBlock # "" THEN "_{" \o subBlock \o "}" ELSE "")
            \o (IF superBlock # "" THEN "^{" \o superBlock \o "}" ELSE "")

RECURSIVE latex_parseNode(_, _)
RECURSIVE latex_parseApply(_, _)
RECURSIVE latex_parsePiecewise(_)

latex_parseNode(node, contextPrecedence) ==
  IF node = Null THEN ""
  ELSE IF node.tag = "apply" THEN latex_parseApply(node, contextPrecedence)
  ELSE IF node.tag = "ci" THEN latex_parseIdentifier(textContent(node))
  ELSE IF node.tag = "cn" THEN (IF textContent(node) = "" THEN "0" ELSE textContent(node))
  ELSE IF node.tag = "piecewise" THEN latex_parsePiecewise(node)
  ELSE IF node.tag = "pi" THEN "\\pi"
  ELSE IF ignoreTag(node.tag) THEN ""
  ELSE ""

\* the precedence parseApply asks of the child at index (0-based) of op
childExpectedPrec(op, index) ==
  IF op \in {"divide", "diff", "root", "sqrt", "sin", "cos", "tan", "exp", "ln", "log"} THEN 0
  ELSE IF op = "minus" /\ index = 1 THEN myPrecedence(op) + 1
  ELSE myPrecedence(op)

\* the case of parseApply for op
ApplyLatex(op, children, args) ==
  LET bvar == FirstWhere(children, {"bvar"}, TRUE)
      dep == FirstWhere(children, {"diff", "bvar"}, FALSE)
      baseNode == IF Len(children) > 1 THEN children[2] ELSE Null
      baseString == IF Len(args) > 0 THEN args[1] ELSE ""
      isAtomic == /\ baseNode # Null
                  /\ \/ baseNode.tag = "ci"
                     \/ baseNode.tag = "cn" /\ CharAt(Trim(baseString), 0) # "-"
  IN IF op = "plus" THEN Join(args, " + ")
     ELSE IF op = "minus" THEN
       (IF Len(args) = 1 THEN "-" \o args[1] ELSE Arg(args, 0) \o " - " \o Arg(args, 1))
     ELSE IF op = "times" THEN Join(args, " \\cdot ")
     ELSE IF op = "divide" THEN "\\frac{" \o Arg(args, 0) \o "}{" \o Arg(args, 1) \o "}"
     ELSE IF op = "eq" THEN Arg(args, 0) \o " == " \o Arg(args, 1)
     ELSE IF op = "neq" THEN Arg(args, 0) \o " \\neq " \o Arg(args, 1)
     ELSE IF op = "lt" THEN Arg(args, 0) \o " < " \o Arg(args, 1)
     ELSE IF op = "leq" THEN Arg(args, 0) \o " \\leq " \o Arg(args, 1)
     ELSE IF op = "gt" THEN Arg(args, 0) \o " > " \o Arg(args, 1)
     ELSE IF op = "geq" THEN Arg(args, 0) \o " \\geq " \o Arg(args, 1)
     ELSE IF op = "and" THEN Join(args, " \\land ")
     ELSE IF op = "or" THEN Join(args, " \\lor ")
     ELSE IF op = "power" THEN
       (IF isAtomic THEN "{" \o baseString \o "}^{" \o Arg(args, 1) \o "}"
        ELSE "\\left({" \o baseString \o "}\\right)^{" \o Arg(args, 1) \o "}")
     ELSE IF op \in {"root", "sqrt"} THEN "\\sqrt{" \o Arg(args, 0) \o "}"
     ELSE IF op = "diff" THEN
       "\\frac{d" \o (IF dep # Null THEN latex_parseNode(dep, 0) ELSE "y")
         \o "}{d" \o (IF bvar # Null THEN latex_parseNode(firstElementChild(bvar), 0) ELSE "x")
         \o "}"
     ELSE IF op = "exp" THEN "e^{" \o Arg(args, 0) \o "}"
     ELSE IF op = "abs" THEN "\\left|" \o Arg(args, 0) \o "\\right|"
     ELSE IF op = "floor" THEN "\\lfloor " \o Arg(args, 0) \o " \\rfloor"
     ELSE IF op = "ceil" THEN "\\lceil " \o Arg(args, 0) \o " \\rceil"
     ELSE IF op \in {"cos", "cosh", "log10", "log", "ln", "max", "min", "sin", "sinh", "tan",
                     "tanh"} THEN
       "\\" \o op \o "\\left(" \o Arg(args, 0) \o "\\right)"
     ELSE "\\text{" \o op \o "}(" \o Join(args, ", ") \o ")"

\* the \left( \right) parseApply puts around latex for its parent
Parenthesized(latex, own, parentPrecedence) ==
  IF own < parentPrecedence THEN "\\left(" \o latex \o "\\right)" ELSE latex

latex_parseApply(node, parentPrecedence) ==
  LET children == node.kids
      op == IF children = <<>> THEN "unknown" ELSE children[1].tag
      args == [i \in 1..(Len(children) - 1) |->
                 latex_parseNode(children[i + 1], childExpectedPrec(op, i - 1))]
  IN Parenthesized(ApplyLatex(op, children, args), myPrecedence(op), parentPrecedence)

latex_parsePiecewise(node) ==
  LET Content(child) ==
        IF child.tag = "piece" THEN
          latex_parseNode(Child(child, 0), 0) \o " & \\text{if } "
            \o latex_parseNode(Child(child, 1), 0) \o " \\\\ "
        ELSE IF child.tag = "otherwise" THEN
          latex_parseNode(Child(child, 0), 0) \o " & \\text{otherwise}"
        ELSE ""
  IN "\\begin{cases} " \o Concat([i \in 1..Len(node.kids) |-> Content(node.kids[i])])
       \o " \\end{cases}"

RECURSIVE latex_convert(_)
latex_convert(mathMLNode) ==
  IF mathMLNode = Null THEN ""
  ELSE IF mathMLNode.tag = "math" THEN
    Join([i \in 1..Len(mathMLNode.kids) |-> latex_convert(mathMLNode.kids[i])], "\n")
  ELSE IF mathMLNode.tag = "apply" /\ firstElementChild(mathMLNode) # Null
          /\ firstElementChild(mathMLNode).tag = "eq" THEN
    latex_parseNode(Child(mathMLNode, 1), 0) \o " = " \o latex_parseNode(Child(mathMLNode, 2), 0)
  ELSE latex_parseNode(mathMLNode, 0)

\* the classes named CellMLLatexGenerator, and convert of each
LatexGenerators == {"lib", "precedence"}

convert(class, mathMLNode) ==
  IF class = "lib" THEN lib_convert(mathMLNode) ELSE Str(latex_convert(mathMLNode))

(***************************************************************************)
(* State                                                                   *)
(***************************************************************************)
VARIABLES
  sourceLineAttr,  \* CellMLTextParser.sourceLineAttr
  scanner,         \* CellMLTextParser.scanner: the CellMLTextScanner fields
  doc,             \* CellMLTextParser.doc: [documentElement |-> the model element]
  stack,           \* the call stack of parse: one frame per active parser function
  ret,             \* the value the last parser function returned
  result,          \* the ParserResult of the last parse call that returned
  calls,           \* the number of parse calls made so far
  source,          \* the text of the first parse call
  first,           \* the result and the document of the first parse call
  generated,       \* the text generate made of the first result
  generator,       \* the CellMLTextGenerator fields output and indentLevel
  subject,         \* what the host hands to a generator: an XML string or an element
  rendered,        \* what the generator returned for subject, or threw
  host             \* the refs and timers of the demo host (App.vue), Null without one

vars ==
  <<sourceLineAttr, scanner, doc, stack, ret, result, calls, source, first, generated,
    generator, subject, rendered, host>>

\* the state of the host and of its generators
renderVars == <<generator, subject, rendered, host>>

Top == stack[Len(stack)]

Rest == SubSeq(stack, 1, Len(stack) - 1)

In(fn) == stack # <<>> /\ Top.fn = fn

\* the part of the state a parser step can change
Cur == [scanner |-> scanner, stack |-> stack, ret |-> ret, doc |-> doc, result |-> result]

Do(o) ==
  /\ scanner' = o.scanner
  /\ stack' = o.stack
  /\ ret' = o.ret
  /\ doc' = o.doc
  /\ result' = o.result
  /\ UNCHANGED <<sourceLineAttr, calls, source, first, generated, renderVars>>

\* the running function goes on at frame f
Goto(sc, f) == [Cur EXCEPT !.scanner = sc, !.stack = Append(Rest, f)]

\* the running function calls callee and will go on at frame f
Call(sc, f, callee) == [Cur EXCEPT !.scanner = sc, !.stack = Append(Append(Rest, f), callee)]

\* the running function returns value
Return(sc, value) == [Cur EXCEPT !.scanner = sc, !.stack = Rest, !.ret = value]

\* an exception unwinds to the catch clause of parse
Throw(m) ==
  [Cur EXCEPT !.scanner = m.sc, !.stack = <<>>, !.result = ParseError(m.sc.line, m.msg)]

WithDoc(o, root) == [o EXCEPT !.doc = [documentElement |-> root]]

Frame(fn) == [fn |-> fn, pc |-> "start"]

ExprFrame(fn) == [fn |-> fn, pc |-> "start", left |-> Null, op |-> ""]

(***************************************************************************)
(* CellMLTextParser: one action per function                               *)
(***************************************************************************)
\* the host calls parse(text): a new scanner, a new document
parseCall(text) ==
  /\ scanner' = NewScanner(text)
  /\ doc' = [documentElement |-> createElementNS(CELLML_NS, "model")]
  /\ stack' = <<Frame("parse")>>
  /\ calls' = calls + 1
  /\ UNCHANGED <<sourceLineAttr, ret, result>>

parseStep ==
  LET root == doc.documentElement
      tok == scanner.currentToken
  IN
  IF Top.pc = "start" THEN
    LET r == Run(Ok(scanner), <<E("KwDef"), E("KwModel")>>)
    IN IF ~r.ok THEN Throw(r)
       ELSE Goto(r.sc, [Top EXCEPT !.pc = "name"])
  ELSE IF Top.pc = "name" THEN
    LET named == tok = "Identifier"
        root1 == IF named THEN setAttribute(root, "name", scanner.currentValue) ELSE root
        r == Run(Ok(scanner), <<A("Identifier"), E("KwAs")>>)
    IN IF ~r.ok THEN WithDoc(Throw(r), root1)
       ELSE WithDoc(Goto(r.sc, [Top EXCEPT !.pc = "loop"]), root1)
  ELSE IF tok # "KwEndDef" /\ tok # "EOF" THEN
    IF tok = "KwDef" THEN Call(scanner, Top, Frame("parseBlock"))
    ELSE Goto(nextToken(scanner), Top)
  ELSE
    LET r == Run(Ok(scanner), <<E("KwEndDef"), E("SemiColon")>>)
    IN IF ~r.ok THEN Throw(r)
       ELSE [Return(r.sc, Null) EXCEPT !.result = ParseSuccess(root, sourceLineAttr)]

parse == In("parse") /\ Do(parseStep)

parseBlockStep ==
  IF Top.pc = "start" THEN
    LET r == Run(Ok(scanner), <<E("KwDef")>>)
    IN IF ~r.ok THEN Throw(r)
       ELSE IF r.sc.currentToken = "KwComp"
         THEN Call(r.sc, [Top EXCEPT !.pc = "end"],
                   [fn |-> "parseComponent", pc |-> "start", comp |-> 0])
       ELSE IF r.sc.currentToken = "KwUnit"
         THEN Call(r.sc, [Top EXCEPT !.pc = "end"], Frame("parseUnit"))
       ELSE Throw(Fail(r.sc, "Expected 'comp' or 'unit' after 'def'"))
  ELSE Return(scanner, Null)

parseBlock == In("parseBlock") /\ Do(parseBlockStep)

\* the frame's comp is the position of the component among the children of
\* the model element
parseComponentStep ==
  LET root == doc.documentElement
      tok == scanner.currentToken
  IN
  IF Top.pc = "start" THEN
    LET r == Run(Ok(scanner), <<E("KwComp"), V("Identifier"), E("KwAs")>>)
        comp == setAttribute(createElementNS(CELLML_NS, "component"), "name", r.values[1])
    IN IF ~r.ok THEN Throw(r)
       ELSE WithDoc(Goto(r.sc, [Top EXCEPT !.pc = "loop", !.comp = Len(root.kids) + 1]),
                    appendChild(root, comp))
  ELSE IF tok # "KwEndDef" THEN
    IF tok = "KwVar"
      THEN Call(scanner, Top, [fn |-> "parseVariable", pc |-> "start",
                               parent |-> Top.comp, variable |-> Null, prop |-> ""])
    ELSE IF tok = "Identifier" \/ tok = "KwSel"
      THEN Call(scanner, Top, [fn |-> "parseMathEquation", pc |-> "start",
                               parent |-> Top.comp, startLine |-> 0, lhsNode |-> Null])
    ELSE Goto(nextToken(scanner), Top)
  ELSE
    LET r == Run(Ok(scanner), <<E("KwEndDef"), E("SemiColon")>>)
    IN IF ~r.ok THEN Throw(r) ELSE Return(r.sc, Null)

parseComponent == In("parseComponent") /\ Do(parseComponentStep)

\* the value of a property: '-' Number, Number, or Identifier; then the comma
PropertyValue(tok) ==
  IF tok = "OpMinus" THEN <<N, V("Number"), A("OpComma")>>
  ELSE IF tok = "Number" THEN <<V("Number"), A("OpComma")>>
  ELSE <<V("Identifier"), A("OpComma")>>

parseVariableStep ==
  LET root == doc.documentElement
      tok == scanner.currentToken
  IN
  IF Top.pc = "start" THEN
    LET r == Run(Ok(scanner), <<E("KwVar"), V("Identifier"), E("Colon"), V("Identifier")>>)
        variable == setAttribute(setAttribute(createElementNS(CELLML_NS, "variable"),
                                              "name", r.values[1]), "units", r.values[2])
    IN IF ~r.ok THEN Throw(r)
       ELSE IF r.sc.currentToken = "LBrace"
         THEN Goto(nextToken(r.sc), [Top EXCEPT !.pc = "props", !.variable = variable])
       ELSE Goto(r.sc, [Top EXCEPT !.pc = "end", !.variable = variable])
  ELSE IF Top.pc = "props" THEN
    IF tok # "RBrace" /\ tok # "EOF"
      THEN LET r == Run(Ok(scanner), <<V("Identifier"), E("Colon")>>)
           IN IF ~r.ok THEN Throw(r)
              ELSE Goto(r.sc, [Top EXCEPT !.pc = "value", !.prop = r.values[1]])
      ELSE LET r == Run(Ok(scanner), <<E("RBrace")>>)
           IN IF ~r.ok THEN Throw(r) ELSE Goto(r.sc, [Top EXCEPT !.pc = "end"])
  ELSE IF Top.pc = "value" THEN
    LET r == Run(Ok(scanner), PropertyValue(tok))
        val == IF tok = "OpMinus" THEN "-" \o r.values[1] ELSE r.values[1]
    IN IF ~r.ok THEN Throw(r)
       ELSE Goto(r.sc, [Top EXCEPT !.pc = "props",
                                   !.variable = MapProperty(@, Top.prop, val)])
  ELSE
    LET r == Run(Ok(scanner), <<E("SemiColon")>>)
    IN IF ~r.ok THEN Throw(r)
       ELSE WithDoc(Return(r.sc, Null),
              [root EXCEPT !.kids[Top.parent] = appendChild(@, Top.variable)])

parseVariable == In("parseVariable") /\ Do(parseVariableStep)

parseUnitStep ==
  LET tok == scanner.currentToken IN
  IF Top.pc = "start" THEN
    LET r == Run(Ok(scanner), <<E("KwUnit")>>)
    IN IF ~r.ok THEN Throw(r) ELSE Goto(r.sc, [Top EXCEPT !.pc = "loop"])
  ELSE IF tok # "KwEndDef" /\ tok # "EOF" THEN Goto(nextToken(scanner), Top)
  ELSE
    LET r == Run(Ok(scanner), <<E("KwEndDef"), E("SemiColon")>>)
    IN IF ~r.ok THEN Throw(r) ELSE Return(r.sc, Null)

parseUnit == In("parseUnit") /\ Do(parseUnitStep)

parseMathEquationStep ==
  LET root == doc.documentElement
      comp == root.kids[Top.parent]
  IN
  IF Top.pc = "start" THEN
    LET withMath == IF FirstMath(comp) = 0
                      THEN appendChild(comp, createElementNS(MATHML_NS, "math"))
                      ELSE comp
    IN WithDoc(Call(scanner, [Top EXCEPT !.pc = "lhs", !.startLine = scanner.line],
                    ExprFrame("parseExpression")),
               [root EXCEPT !.kids[Top.parent] = withMath])
  ELSE IF Top.pc = "lhs" THEN
    LET r == Run(Ok(scanner), <<E("OpAss")>>)
    IN IF ~r.ok THEN Throw(r)
       ELSE Call(r.sc, [Top EXCEPT !.pc = "rhs", !.lhsNode = ret], ExprFrame("parseExpression"))
  ELSE
    LET endLine == scanner.line
        apply == EquationApply(sourceLineAttr, Top.startLine, endLine, Top.lhsNode, ret)
        root1 == [root EXCEPT !.kids[Top.parent].kids[FirstMath(comp)] = appendChild(@, apply)]
        r == Run(Ok(scanner), <<E("SemiColon")>>)
    IN IF ~r.ok THEN WithDoc(Throw(r), root1) ELSE WithDoc(Return(r.sc, Null), root1)

parseMathEquation == In("parseMathEquation") /\ Do(parseMathEquationStep)

\* the loop of parseCondition, parseExpression and parseTerm: while the
\* current token is one of ops, consume it and parse the right operand with
\* operand; otherwise return left
FoldLoop(left, ops, operand) ==
  IF scanner.currentToken \in ops
    THEN Call(nextToken(scanner),
              [Top EXCEPT !.pc = "right", !.left = left, !.op = scanner.currentToken],
              ExprFrame(operand))
    ELSE Return(scanner, left)

\* a left-folding binary level: operand (op operand)*
FoldStep(ops, operand, tagOf) ==
  IF Top.pc = "start" THEN Call(scanner, [Top EXCEPT !.pc = "left"], ExprFrame(operand))
  ELSE IF Top.pc = "left" THEN FoldLoop(ret, ops, operand)
  ELSE FoldLoop(BinaryApply(tagOf[Top.op], Top.left, ret), ops, operand)

ConditionTag == [op \in {"OpAnd", "OpOr"} |-> IF op = "OpAnd" THEN "and" ELSE "or"]

ExpressionTag == [op \in {"OpPlus", "OpMinus"} |-> IF op = "OpPlus" THEN "plus" ELSE "minus"]

TermTag == [op \in {"OpTimes", "OpDivide"} |-> IF op = "OpTimes" THEN "times" ELSE "divide"]

parseCondition ==
  In("parseCondition") /\ Do(FoldStep({"OpAnd", "OpOr"}, "parseComparison", ConditionTag))

parseComparisonStep ==
  IF Top.pc = "start"
    THEN Call(scanner, [Top EXCEPT !.pc = "left"], ExprFrame("parseExpression"))
  ELSE IF Top.pc = "left" THEN
    IF isComparisonToken(scanner.currentToken)
      THEN Call(nextToken(scanner),
                [Top EXCEPT !.pc = "right", !.left = ret, !.op = scanner.currentToken],
                ExprFrame("parseExpression"))
      ELSE Return(scanner, ret)
  ELSE Return(scanner, BinaryApply(ComparisonTag(Top.op), Top.left, ret))

parseComparison == In("parseComparison") /\ Do(parseComparisonStep)

parseExpression ==
  In("parseExpression") /\ Do(FoldStep({"OpPlus", "OpMinus"}, "parseTerm", ExpressionTag))

parseTerm ==
  In("parseTerm") /\ Do(FoldStep({"OpTimes", "OpDivide"}, "parseFactor", TermTag))

\* the frame's left holds the cn element while the brace content is consumed
parseFactorStep ==
  LET tok == scanner.currentToken IN
  IF Top.pc = "start" THEN
    IF tok = "OpMinus"
      THEN Call(nextToken(scanner), [Top EXCEPT !.pc = "minus"], ExprFrame("parseFactor"))
    ELSE IF tok = "Number" THEN
      LET sc1 == nextToken(scanner)
          cn == setTextContent(createElementNS(MATHML_NS, "cn"), scanner.currentValue)
      IN IF sc1.currentToken = "LBrace"
           THEN Goto(nextToken(sc1), [Top EXCEPT !.pc = "units", !.left = cn])
           ELSE Return(sc1, cn)
    ELSE IF tok = "Identifier" THEN
      LET name == scanner.currentValue
          sc1 == nextToken(scanner)
      IN IF sc1.currentToken = "LParam"
           THEN Call(sc1, [Top EXCEPT !.pc = "call"],
                     [fn |-> "parseFunctionCall", pc |-> "start", funcName |-> name,
                      apply |-> Null, dep |-> Null])
           ELSE Return(sc1, setTextContent(createElementNS(MATHML_NS, "ci"), name))
    ELSE IF tok = "LParam"
      THEN Call(nextToken(scanner), [Top EXCEPT !.pc = "paren"], ExprFrame("parseExpression"))
    ELSE IF tok = "KwSel"
      THEN Call(scanner, [Top EXCEPT !.pc = "call"],
                [fn |-> "parsePiecewise", pc |-> "start", piecewise |-> Null,
                 condition |-> Null])
    ELSE Throw(Fail(scanner, "Unexpected token in math: " \o scanner.currentValue))
  ELSE IF Top.pc = "minus" THEN Return(scanner, UnaryMinusApply(ret))
  ELSE IF Top.pc = "units" THEN
    IF scanner.currentValue = "units"
      THEN LET r == Run(Ok(scanner), <<N, E("Colon"), V("Identifier")>>)
           IN IF ~r.ok THEN Throw(r)
              ELSE Goto(r.sc, [Top EXCEPT !.pc = "brace",
                                          !.left = setAttribute(@, "cellml:units", r.values[1])])
      ELSE Goto(scanner, [Top EXCEPT !.pc = "brace"])
  ELSE IF Top.pc = "brace" THEN
    IF tok # "RBrace" THEN Goto(nextToken(scanner), Top)
    ELSE LET r == Run(Ok(scanner), <<E("RBrace")>>)
         IN IF ~r.ok THEN Throw(r) ELSE Return(r.sc, Top.left)
  ELSE IF Top.pc = "paren" THEN
    LET r == Run(Ok(scanner), <<E("RParam")>>)
    IN IF ~r.ok THEN Throw(r) ELSE Return(r.sc, ret)
  ELSE Return(scanner, ret)

parseFactor == In("parseFactor") /\ Do(parseFactorStep)

parsePiecewiseStep ==
  LET \* the while loop over 'case', the optional 'otherwise', and 'endsel'
      Cases(sc, piecewise) ==
        IF sc.currentToken = "KwCase"
          THEN Call(nextToken(sc), [Top EXCEPT !.pc = "condition", !.piecewise = piecewise],
                    ExprFrame("parseCondition"))
        ELSE IF sc.currentToken = "KwOtherwise" THEN
          LET r == Run(Ok(sc), <<E("KwOtherwise"), E("Colon")>>)
          IN IF ~r.ok THEN Throw(r)
             ELSE Call(r.sc, [Top EXCEPT !.pc = "otherwise", !.piecewise = piecewise],
                       ExprFrame("parseExpression"))
        ELSE
          LET r == Run(Ok(sc), <<E("KwEndSel")>>)
          IN IF ~r.ok THEN Throw(r) ELSE Return(r.sc, piecewise)
  IN
  IF Top.pc = "start" THEN
    LET r == Run(Ok(scanner), <<E("KwSel")>>)
    IN IF ~r.ok THEN Throw(r)
       ELSE Goto(r.sc, [Top EXCEPT !.pc = "cases",
                                   !.piecewise = createElementNS(MATHML_NS, "piecewise")])
  ELSE IF Top.pc = "cases" THEN Cases(scanner, Top.piecewise)
  ELSE IF Top.pc = "condition" THEN
    LET r == Run(Ok(scanner), <<E("Colon")>>)
    IN IF ~r.ok THEN Throw(r)
       ELSE Call(r.sc, [Top EXCEPT !.pc = "value", !.condition = ret],
                 ExprFrame("parseExpression"))
  ELSE IF Top.pc = "value" THEN
    LET r == Run(Ok(scanner), <<E("SemiColon")>>)
    IN IF ~r.ok THEN Throw(r)
       ELSE Goto(r.sc, [Top EXCEPT !.pc = "cases",
                                   !.piecewise = appendChild(@, Piece(ret, Top.condition))])
  ELSE
    LET r == Run(Ok(scanner), <<E("SemiColon"), E("KwEndSel")>>)
        otherwise == appendChild(createElementNS(MATHML_NS, "otherwise"), ret)
    IN IF ~r.ok THEN Throw(r) ELSE Return(r.sc, appendChild(Top.piecewise, otherwise))

parsePiecewise == In("parsePiecewise") /\ Do(parsePiecewiseStep)

parseFunctionCallStep ==
  LET \* one round of the do-while loop over the arguments
      Argument(apply) ==
        Call(IF scanner.currentToken = "OpComma" THEN nextToken(scanner) ELSE scanner,
             [Top EXCEPT !.pc = "argument", !.apply = apply], ExprFrame("parseExpression"))
      Close(apply) ==
        LET r == Run(Ok(scanner), <<E("RParam")>>)
        IN IF ~r.ok THEN Throw(r) ELSE Return(r.sc, apply)
  IN
  IF Top.pc = "start" THEN
    LET r == Run(Ok(scanner), <<E("LParam")>>)
        apply == appendChild(createElementNS(MATHML_NS, "apply"),
                             createElementNS(MATHML_NS, Top.funcName))
    IN IF ~r.ok THEN Throw(r)
       ELSE IF Top.funcName = "ode"
         THEN Call(r.sc, [Top EXCEPT !.pc = "dep"], ExprFrame("parseExpression"))
       ELSE Goto(r.sc, [Top EXCEPT !.pc = "arguments", !.apply = apply])
  ELSE IF Top.pc = "arguments" THEN
    IF scanner.currentToken # "RParam" THEN Argument(Top.apply) ELSE Close(Top.apply)
  ELSE IF Top.pc = "dep" THEN
    LET r == Run(Ok(scanner), <<E("OpComma")>>)
    IN IF ~r.ok THEN Throw(r)
       ELSE Call(r.sc, [Top EXCEPT !.pc = "indep", !.dep = ret], ExprFrame("parseExpression"))
  ELSE IF Top.pc = "indep" THEN
    LET r == Run(Ok(scanner), <<E("RParam")>>)
    IN IF ~r.ok THEN Throw(r) ELSE Return(r.sc, DiffApply(Top.dep, ret))
  ELSE
    IF scanner.currentToken = "OpComma" THEN Argument(appendChild(Top.apply, ret))
    ELSE Close(appendChild(Top.apply, ret))

parseFunctionCall == In("parseFunctionCall") /\ Do(parseFunctionCallStep)

(***************************************************************************)
(* Texts: the programs the host passes to parse.  A program is written as  *)
(* a sequence of words, laid out with a line break after every "as" and    *)
(* every ";" and, for some programs, one more line break or a cut.         *)
(***************************************************************************)
MaxOps == 3     \* operators in a flat arithmetic expression

MaxNeg == 3     \* consecutive unary minus signs

MaxCases == 2   \* case branches of a sel block

MaxArgs == 2    \* arguments of a function call

MaxStmts == 2   \* statements of a component built from StmtPool

MaxCalls == 2   \* parse calls on one parser

MaxProps == 2   \* properties of a variable declaration built from PropPool

MaxLogic == 3   \* and/or operators in a chain of comparisons

\* the text of words, with a further line break after word number extra
Layout(words, extra) ==
  Concat([i \in 1..Len(words) |->
            words[i] \o (IF i = Len(words) THEN ""
                         ELSE IF i = extra \/ words[i] \in {"as", ";"} THEN "\n"
                         ELSE " ")])

HeaderW == <<"def", "model", "m", "as", "def", "comp", "c", "as">>

FooterW == <<"enddef", ";", "enddef", ";">>

\* a model with one component that holds body
Program(body) == HeaderW \o body \o FooterW

OperandNames == <<"a", "b", "c", "d", "e", "g", "h", "k">>

ArithOps == {"+", "-", "*", "/"}

\* operand (op operand)^k with the operands a, b, c, ... in this order
RECURSIVE FlatExpr(_)
FlatExpr(k) ==
  IF k = 0 THEN {<<OperandNames[1]>>}
  ELSE {e \o <<op, OperandNames[k + 1]>> : e \in FlatExpr(k - 1), op \in ArithOps}

ArithBodies ==
  UNION {{<<"x", "=">> \o e \o <<";">> : e \in FlatExpr(k)} : k \in 0..MaxOps}

RECURSIVE Minuses(_)
Minuses(n) == IF n = 0 THEN <<>> ELSE <<"-">> \o Minuses(n - 1)

NegOperands == {<<"5">>, <<"a">>, <<"1.5e-3">>, <<"(", "a", "+", "b", ")">>}

NegBodies ==
  {pre \o Minuses(n) \o X \o <<";">> :
     pre \in {<<"x", "=">>, <<"x", "=", "b", "-">>, <<"x", "=", "b", "*">>},
     n \in 1..MaxNeg, X \in NegOperands}

\* left-hand sides of a statement
LhsBodies ==
  {lhs \o <<"=", "b", ";">> :
     lhs \in {<<"5">>, <<"-", "a">>, <<"(", "a", ")">>, <<"a", "+", "b">>,
              <<"ode", "(", "V", ",", "t", ")">>, <<"sel", "endsel">>}}

Conditions == {<<"a", ">", "b">>, <<"a", "<=", "b", "and", "c", "or", "d", "!=", "5">>}

Values == {<<"5">>, <<"root", "(", "a", ")">>, <<"ode", "(", "V", ",", "t", "+", "b", ")">>}

RECURSIVE CaseLists(_)
CaseLists(n) ==
  IF n = 0 THEN {<<>>}
  ELSE {cs \o <<"case">> \o c \o <<":">> \o v \o <<";">> :
          cs \in CaseLists(n - 1), c \in Conditions, v \in Values}

PiecewiseBodies ==
  {<<"x", "=", "sel">> \o cs \o ow \o <<"endsel", ";">> :
     cs \in UNION {CaseLists(n) : n \in 0..MaxCases},
     ow \in {<<>>} \cup {<<"otherwise", ":">> \o v \o <<";">> : v \in Values}}

RECURSIVE ArgList(_)
ArgList(k) ==
  IF k = 0 THEN <<>>
  ELSE IF k = 1 THEN <<OperandNames[1]>>
  ELSE ArgList(k - 1) \o <<",", OperandNames[k]>>

CallNames == {"sin", "root", "ode", "f", "minus"}

\* x = f(a, b, ...); with k arguments
CallBody(f, k) == <<"x", "=", f, "(">> \o ArgList(k) \o <<")", ";">>

CallBodies ==
  {CallBody(f, k) : f \in CallNames, k \in 0..MaxArgs}
  \cup {CallBody("ode", MaxArgs + 1), CallBody("eq", 2), CallBody("times", 0),
        <<"x", "=", "f", "(", "a", "+", "1", ",", "b", "*", "2", ")", ";">>,
        <<"x", "=", "f", "(", ",", "a", ")", ";">>,
        <<"x", "=", "f", "(", "a", ",", ")", ";">>,
        <<"x", "=", "ode", "(", "V", ",", "t", "+", "b", ")", ";">>}

CmpOps == {"==", "!=", "<", "<=", ">", ">="}

\* comparisons: without an operator, with each operator, between expressions
Comparisons ==
  {<<"a">>, <<"5">>, <<"a", "*", "b">>} \cup {<<"a", op, "b">> : op \in CmpOps}
    \cup {<<"a", "+", "1", "<", "b", "*", "2">>, <<"a", "-", "b", "==", "5">>}

\* a and/or b and/or c ... with k operators
RECURSIVE LogicChains(_)
LogicChains(k) ==
  IF k = 0 THEN {<<OperandNames[1]>>}
  ELSE {c \o <<op, OperandNames[k + 1]>> : c \in LogicChains(k - 1), op \in {"and", "or"}}

MixedChains ==
  {<<"a", "<", "b", "and", "c", ">=", "d">>,
   <<"a", "or", "b", "==", "c", "and", "d">>,
   <<"a", "+", "1", "!=", "b", "or", "c", "and", "d", "<=", "5">>}

ChainConditions ==
  Comparisons \cup UNION {LogicChains(k) : k \in 1..MaxLogic} \cup MixedChains

\* a sel block with one case under a condition
ConditionBody(c) == <<"x", "=", "sel", "case">> \o c \o <<":", "5", ";", "endsel", ";">>

ConditionBodies == {ConditionBody(c) : c \in ChainConditions}

\* identifiers of a derivative: plain, with an underscore, a Greek name
OdeNames == {"V", "t", "Vm", "time", "V_m", "tau"}

OdeBody(dep, indep) == <<"x", "=", "ode", "(", dep, ",", indep, ")", ";">>

OdeBodies == {OdeBody(dep, indep) : dep \in OdeNames, indep \in OdeNames}

UnitsBodies ==
  {<<"x", "=", "5", "{">> \o inner \o <<"}", ";">> :
     inner \in {<<"units", ":", "mV">>, <<"units", ":", "mV", ",", "foo", ":", "bar">>,
                <<"foo">>, <<>>, <<"units", "mV">>}}

VarBodies ==
  {<<"var", "a", ":", "u">> \o props \o <<";">> :
     props \in {<<>>,
                <<"{", "init", ":", "10", "}">>,
                <<"{", "init", ":", "-", "65", ",", "interface", ":", "public", "}">>,
                <<"{", "init", ":", "5", "interface", ":", "public", "}">>,
                <<"{", "foo", ":", "bar", "}">>,
                <<"{", "init", ":", "}">>,
                <<"{", "}">>,
                <<"{", "init", ":", "5">>}}
  \cup {<<"var", "a", "u", ";">>, <<"var", ":", "u", ";">>}

\* properties: init with a number, a negative number and an identifier,
\* interface, and keys other than init and interface
PropPool ==
  {<<"init", ":", "10">>, <<"init", ":", "-", "65">>, <<"init", ":", "a">>,
   <<"interface", ":", "public">>, <<"foo", ":", "bar">>, <<"foo", ":", "-", "2">>}

RECURSIVE PropLists(_)
PropLists(n) ==
  IF n = 0 THEN {<<>>} ELSE {Append(ps, prop) : ps \in PropLists(n - 1), prop \in PropPool}

\* the words of a property list: the properties with commas in between
RECURSIVE PropWords(_)
PropWords(ps) ==
  IF ps = <<>> THEN <<>>
  ELSE IF Len(ps) = 1 THEN ps[1]
  ELSE ps[1] \o <<",">> \o PropWords(Tail(ps))

\* var name: units {props}; and without the braces when braces is FALSE
VarDecl(name, units, ps, braces) ==
  <<"var", name, ":", units>>
    \o (IF braces THEN <<"{">> \o PropWords(ps) \o <<"}">> ELSE <<>>) \o <<";">>

VarDecls ==
  {[name |-> "a", units |-> "u", props |-> ps, braces |-> TRUE] :
     ps \in UNION {PropLists(n) : n \in 0..MaxProps}}
  \cup {[name |-> "V_m", units |-> "dimensionless", props |-> ps, braces |-> ps # <<>>] :
          ps \in {<<>>, <<<<"init", ":", "-", "65">>, <<"interface", ":", "public">>>>}}

VarDeclBody(d) == VarDecl(d.name, d.units, d.props, d.braces)

VarDeclBodies == {VarDeclBody(d) : d \in VarDecls}

StmtPool ==
  {<<"var", "a", ":", "u", ";">>, <<"x", "=", "a", ";">>,
   <<"y", "=", "b", "+", "1", ";">>, <<")">>}

RECURSIVE StmtLists(_)
StmtLists(n) ==
  IF n = 0 THEN {<<>>}
  ELSE {ss \o st : ss \in StmtLists(n - 1), st \in StmtPool}

StmtBodies == UNION {StmtLists(n) : n \in 0..MaxStmts}

UnitBlockW == <<"def", "unit", "mV", "as", "unit", "volt", "{", "prefix", ":", "milli", "}", ";",
                "enddef", ";">>

CompW(name, body) == <<"def", "comp", name, "as">> \o body \o <<"enddef", ";">>

\* programs that are not one component in a named model
StructurePrograms ==
  {<<>>,
   <<"def", "model", "m", "as", "enddef", ";">>,
   <<"def", "model", "as">> \o CompW("c", <<"x", "=", "a", ";">>) \o <<"enddef", ";">>,
   <<"def", "model", "m", "as">> \o UnitBlockW \o CompW("c", <<"var", "a", ":", "mV", ";">>)
     \o <<"enddef", ";">>,
   <<"def", "model", "m", "as">> \o CompW("c", <<"x", "=", "a", ";">>)
     \o CompW("d", <<"y", "=", "b", ";">>) \o <<"enddef", ";">>,
   <<"def", "model", "m", "as", "x">> \o CompW("c", <<>>) \o <<";", "enddef", ";">>,
   <<"def", "model", "m", "as", "def", "x", "enddef", ";">>,
   <<"def", "model", "m", "as", "def", "comp", "as", "enddef", ";", "enddef", ";">>,
   <<"model", "m", "as", "enddef", ";">>,
   Program(<<"x", "=", "a", ";">>) \o <<"junk">>,
   Program(<<"x", "=", "a", ";">>) \o <<"def", "comp">>}

\* the programs that are also laid out with one more line break, and cut
VariedPrograms ==
  {Program(<<"x", "=", "a", "+", "b", ";">>),
   Program(<<"-", "a", "=", "b", ";", "y", "=", "5", "{", "units", ":", "mV", "}", ";">>),
   Program(<<"var", "a", ":", "u", "{", "init", ":", "-", "65", "}", ";">>),
   <<"def", "model", "m", "as">> \o UnitBlockW \o <<"enddef", ";">>,
   Program(<<"x", "=", "sel", "case", "a", ">", "b", ":", "f", "(", "a", ")", ";",
             "otherwise", ":", "(", "5", ")", ";", "endsel", ";">>)}

Prefixes(words) == {SubSeq(words, 1, k) : k \in 0..Len(words)}

Programs ==
  {Program(body) : body \in ArithBodies \cup NegBodies \cup LhsBodies \cup PiecewiseBodies
                             \cup CallBodies \cup UnitsBodies \cup VarBodies \cup StmtBodies
                             \cup OdeBodies \cup VarDeclBodies \cup ConditionBodies}
  \cup StructurePrograms

PlainTexts == {Layout(words, 0) : words \in Programs}

BrokenTexts == UNION {{Layout(words, k) : k \in 0..Len(words)} : words \in VariedPrograms}

CutTexts == UNION {{Layout(cut, 0) : cut \in Prefixes(words)} : words \in VariedPrograms}

\* the program of the README's quick start
QuickStart ==
  "\ndef model my_model\n    def comp my_component\n"
    \o "        var a: dimension_less {init: 10};\n    enddef;\nenddef;\n"

Texts == PlainTexts \cup BrokenTexts \cup CutTexts \cup {QuickStart}

\* the constructor options; the texts with line breaks are parsed under each
Options ==
  {[sourceLineAttribute |-> v] : v \in {Undefined, Null, Str(""), Str("data-debug-location")}}

\* an option that names the location attribute as a content attribute
ContentOptions == {[sourceLineAttribute |-> Str("name")]}

TextsFor(attr) == IF attr = Str("data-source-location") THEN Texts ELSE BrokenTexts

(***************************************************************************)
(* Specification                                                           *)
(***************************************************************************)
Init ==
  /\ sourceLineAttr \in {Constructor(o) : o \in Options \cup ContentOptions}
  /\ scanner = Null
  /\ doc = Null
  /\ stack = <<>>
  /\ ret = Null
  /\ result = Null
  /\ calls = 0
  /\ source = Null
  /\ first = Null
  /\ generated = Null
  /\ generator = NewGenerator
  /\ subject = Null
  /\ rendered = Null
  /\ host = Null

\* the host parses a text
Parse ==
  /\ stack = <<>>
  /\ calls = 0
  /\ \E text \in TextsFor(sourceLineAttr) : parseCall(text) /\ source' = Str(text)
  /\ UNCHANGED <<first, generated, renderVars>>

\* the host passes the XML of a successful parse to generate
Generate ==
  /\ stack = <<>>
  /\ calls > 0
  /\ generated = Null
  /\ result.xml # Null
  /\ generated' = Str(generateCall(generator, result.xml).returned)
  /\ generator' = generateCall(generator, result.xml).fields
  /\ first' = [result |-> result, doc |-> doc]
  /\ UNCHANGED <<sourceLineAttr, scanner, doc, stack, ret, result, calls, source, subject,
                 rendered, host>>

\* the host parses the generated text with the same parser
Reparse ==
  /\ stack = <<>>
  /\ generated # Null
  /\ calls < MaxCalls
  /\ parseCall(generated.value)
  /\ UNCHANGED <<source, first, generated, renderVars>>

Next ==
  \/ Parse
  \/ Generate
  \/ Reparse
  \/ parse
  \/ parseBlock
  \/ parseComponent
  \/ parseVariable
  \/ parseUnit
  \/ parseMathEquation
  \/ parseCondition
  \/ parseComparison
  \/ parseExpression
  \/ parseTerm
  \/ parseFactor
  \/ parsePiecewise
  \/ parseFunctionCall

Spec == Init /\ [][Next]_vars

\* a call that is running takes its next step
FairSpec == Spec /\ WF_vars(Next)

(***************************************************************************)
(* The scanner on its own: a host constructs a CellMLTextScanner on a text *)
(* and calls nextToken() again and again.  A text is up to MaxPieces       *)
(* pieces written one after the other.                                     *)
(***************************************************************************)
MaxPieces == 3   \* pieces of a text handed to a scanner

Pieces ==
  {"1", "e", "E", "+", "-", ".", "\n", "//", " ", "@", "2exp", "1.5e-3", "//x\ny"}

RECURSIVE PieceTexts(_)
PieceTexts(n) ==
  IF n = 0 THEN {""} ELSE {text \o piece : text \in PieceTexts(n - 1), piece \in Pieces}

ScannerTexts == UNION {PieceTexts(n) : n \in 0..MaxPieces}

ScannerInit ==
  /\ sourceLineAttr = Constructor([sourceLineAttribute |-> Undefined])
  /\ source \in {Str(text) : text \in ScannerTexts}
  /\ scanner = NewScanner(source.value)
  /\ doc = Null
  /\ stack = <<>>
  /\ ret = Null
  /\ result = Null
  /\ calls = 0
  /\ first = Null
  /\ generated = Null
  /\ generator = NewGenerator
  /\ subject = Null
  /\ rendered = Null
  /\ host = Null

\* the host calls nextToken()
NextTokenCall ==
  /\ scanner' = nextToken(scanner)
  /\ UNCHANGED <<sourceLineAttr, doc, stack, ret, result, calls, source, first, generated,
                 renderVars>>

ScannerSpec == ScannerInit /\ [][NextTokenCall]_vars

(***************************************************************************)
(* The generators on their own: a host hands an XML string to generate of  *)
(* a CellMLTextGenerator, or a MathML element to convert of a              *)
(* CellMLLatexGenerator.                                                   *)
(***************************************************************************)
\* MathML elements
MathElement(tag, text, kids) ==
  [ns |-> MATHML_NS, tag |-> tag, attrs |-> <<>>, text |-> text, kids |-> kids]

MathApply(kids) == MathElement("apply", "", kids)

Atoms == {MathElement("ci", "a", <<>>), MathElement("ci", "b", <<>>), MathElement("cn", "5", <<>>)}

BinaryTags == {"plus", "minus", "times", "divide", "power"}

\* the applies of a tag over operands: one binary apply for every pair, and
\* the one-argument minus
AppliesOver(operands) ==
  {MathApply(<<MathElement(tag, "", <<>>), l, r>>) :
     tag \in BinaryTags, l \in operands, r \in operands}
  \cup {MathApply(<<MathElement("minus", "", <<>>), x>>) : x \in operands}

InnerApplies == AppliesOver({MathElement("ci", "b", <<>>), MathElement("ci", "c", <<>>)})

Expressions == AppliesOver(Atoms \cup InnerApplies)

\* elements a tree can hold that are not expressions: math with and without
\* children, apply without operands and without children, an equation, a
\* derivative, a piecewise, identifiers with Greek names and underscores
OtherElements ==
  {MathElement("math", "", <<>>),
   MathElement("math", "", <<MathElement("math", "", <<>>)>>),
   MathElement("math", "", <<MathApply(<<MathElement("eq", "", <<>>),
                                         MathElement("ci", "x", <<>>),
                                         MathElement("cn", "5", <<>>)>>),
                             MathApply(<<MathElement("eq", "", <<>>),
                                         MathElement("ci", "y", <<>>),
                                         MathElement("ci", "x", <<>>)>>)>>),
   MathApply(<<>>),
   MathApply(<<MathElement("plus", "", <<>>)>>),
   MathApply(<<MathElement("minus", "", <<>>)>>),
   MathApply(<<MathElement("sin", "", <<>>)>>),
   MathApply(<<MathElement("diff", "", <<>>)>>),
   MathApply(<<MathElement("diff", "", <<>>), MathElement("bvar", "", <<>>),
               MathElement("ci", "V", <<>>)>>),
   MathElement("piecewise", "", <<MathElement("piece", "", <<>>),
                                  MathElement("otherwise", "", <<>>)>>),
   MathElement("ci", "alpha", <<>>),
   MathElement("ci", "V_m", <<>>),
   MathElement("ci", "v_AQ_api_i", <<>>),
   MathElement("ci", "", <<>>),
   MathElement("semantics", "", <<>>)}

RelationalTags == {"eq", "neq", "lt", "leq", "gt", "geq"}

\* operators no case of a generator names
UnrecognizedTags == {"foo"}

\* operands that are comparisons, and an apply of an operator that is not known
LooseOperands ==
  {MathApply(<<MathElement(tag, "", <<>>), MathElement("ci", "b", <<>>),
               MathElement("ci", "c", <<>>)>>) : tag \in RelationalTags}
  \cup {MathApply(<<MathElement(tag, "", <<>>), MathElement("ci", "b", <<>>)>>) :
          tag \in UnrecognizedTags}

\* plus, minus and times over an identifier and the loose operands
LooseExpressions ==
  {MathApply(<<MathElement(tag, "", <<>>), l, r>>) :
     tag \in {"plus", "minus", "times"},
     l \in LooseOperands \cup {MathElement("ci", "a", <<>>)},
     r \in LooseOperands \cup {MathElement("ci", "a", <<>>)}}

\* x = sel case a == b: 5; otherwise: a < b; endsel as an equation
NestedEquation ==
  MathApply(<<MathElement("eq", "", <<>>), MathElement("ci", "x", <<>>),
              MathElement("piecewise", "",
                <<MathElement("piece", "",
                    <<MathElement("cn", "5", <<>>),
                      MathApply(<<MathElement("eq", "", <<>>), MathElement("ci", "a", <<>>),
                                  MathElement("ci", "b", <<>>)>>)>>),
                  MathElement("otherwise", "",
                    <<MathApply(<<MathElement("lt", "", <<>>), MathElement("ci", "a", <<>>),
                                  MathElement("ci", "b", <<>>)>>)>>)>>)>>)

\* math elements with one, two and three children, equations and others
MathRoots ==
  {MathElement("math", "", kids) :
     kids \in {<<NestedEquation>>,
               <<NestedEquation, MathElement("ci", "y", <<>>)>>,
               <<MathApply(<<MathElement("plus", "", <<>>), MathElement("ci", "a", <<>>),
                             MathElement("ci", "b", <<>>)>>),
                 NestedEquation,
                 MathApply(<<MathElement("eq", "", <<>>), MathElement("ci", "y", <<>>),
                             MathElement("ci", "x", <<>>)>>)>>}}

MathElements ==
  Expressions \cup InnerApplies \cup Atoms \cup OtherElements \cup LooseExpressions
    \cup MathRoots \cup {NestedEquation}

\* an element of an XML text
XmlElement(tag, attrs, text, kids) == [tag |-> tag, attrs |-> attrs, text |-> text, kids |-> kids]

Xmlns(ns) == [name |-> "xmlns", value |-> ns]

\* an attribute, and an element without attributes
Attr(name, value) == [name |-> name, value |-> value]

Xml(tag, text, kids) == XmlElement(tag, <<>>, text, kids)

\* models of CellML 2.0 with units and components: units that are children
\* of the model before and after a component, units inside a component, a
\* component inside a component
LayoutModels ==
  {XmlText(XmlElement("model", <<Xmlns(CELLML_NS), Attr("name", "m")>>, "", kids)) :
     kids \in
       {<<XmlElement("units", <<Attr("name", "mV")>>, "",
                     <<XmlElement("unit", <<Attr("units", "volt"), Attr("prefix", "milli")>>,
                                  "", <<>>)>>),
          XmlElement("component", <<Attr("name", "c")>>, "",
                     <<XmlElement("variable", <<Attr("name", "a"), Attr("units", "mV")>>, "",
                                  <<>>)>>)>>,
        <<XmlElement("component", <<Attr("name", "c")>>, "",
                     <<XmlElement("units", <<Attr("name", "inner")>>, "", <<>>),
                       XmlElement("component", <<Attr("name", "d")>>, "",
                                  <<XmlElement("variable",
                                               <<Attr("name", "b"), Attr("units", "u")>>, "",
                                               <<>>)>>)>>),
          XmlElement("units", <<Attr("name", "late")>>, "", <<>>),
          XmlElement("component", <<>>, "", <<>>)>>,
        <<XmlElement("units", <<Attr("name", "only")>>, "", <<>>)>>}}

\* children of a math element: equations, with a compound left-hand side,
\* without operands and with a sel block that holds a comparison with eq;
\* expressions that are not equations; children that have no expression
SelChildren ==
  <<Xml("apply", "", <<Xml("eq", "", <<>>),
                     Xml("apply", "", <<Xml("plus", "", <<>>), Xml("ci", "a", <<>>),
                                      Xml("ci", "b", <<>>)>>),
                     Xml("ci", "c", <<>>)>>),
    Xml("ci", "y", <<>>),
    Xml("apply", "", <<Xml("eq", "", <<>>), Xml("ci", "x", <<>>),
                     Xml("piecewise", "",
                       <<Xml("piece", "",
                           <<Xml("cn", "5", <<>>),
                             Xml("apply", "", <<Xml("eq", "", <<>>), Xml("ci", "a", <<>>),
                                              Xml("ci", "b", <<>>)>>)>>)>>)>>)>>

MathChildren ==
  {<<Xml("apply", "", <<Xml("eq", "", <<>>), Xml("ci", "x", <<>>), Xml("cn", "5", <<>>)>>)>>,
   SelChildren,
   <<Xml("apply", "", <<Xml("times", "", <<>>), Xml("ci", "a", <<>>), Xml("ci", "b", <<>>)>>),
     Xml("apply", "", <<Xml("eq", "", <<>>)>>),
     Xml("apply", "", <<Xml("neq", "", <<>>), Xml("ci", "a", <<>>), Xml("ci", "b", <<>>)>>)>>,
   <<Xml("ci", "y", <<>>), Xml("bvar", "", <<>>), Xml("ci", "z", <<>>)>>,
   <<Xml("apply", "", <<>>), Xml("ci", "", <<>>)>>,
   <<>>}

\* a model m with one component c that holds one math element
MathModel(children) ==
  XmlText(XmlElement("model", <<Xmlns(CELLML_NS), Attr("name", "m")>>, "",
            <<XmlElement("component", <<Attr("name", "c")>>, "",
                         <<XmlElement("math", <<Xmlns(MATHML_NS)>>, "", children)>>)>>))

MathModels == {MathModel(children) : children \in MathChildren}

\* XML strings: not well-formed, without a model, with a model of CellML
\* 1.1, with a model of CellML 2.0 inside another root, and models of
\* CellML 2.0
XmlStrings ==
  LayoutModels \cup MathModels \cup
  {Malformed,
   XmlText(XmlElement("math", <<Xmlns(MATHML_NS)>>, "", <<>>)),
   XmlText(XmlElement("model", <<>>, "", <<>>)),
   XmlText(XmlElement("model", <<Xmlns("http://www.cellml.org/cellml/1.1#"),
                                 [name |-> "name", value |-> "m"]>>, "", <<>>)),
   XmlText(XmlElement("root", <<>>, "",
                      <<XmlElement("model", <<Xmlns(CELLML_NS)>>, "", <<>>)>>)),
   XmlText(XmlElement("model", <<Xmlns(CELLML_NS)>>, "", <<>>)),
   XmlText(XmlElement("model", <<Xmlns(CELLML_NS), [name |-> "name", value |-> "m"]>>, "",
                      <<XmlElement("component", <<[name |-> "name", value |-> "c"]>>, "",
                                   <<XmlElement("variable",
                                                <<[name |-> "name", value |-> "a"],
                                                  [name |-> "units", value |-> "u"]>>,
                                                "", <<>>)>>)>>))}

RenderInit ==
  /\ sourceLineAttr = Constructor([sourceLineAttribute |-> Undefined])
  /\ scanner = Null
  /\ doc = Null
  /\ stack = <<>>
  /\ ret = Null
  /\ result = Null
  /\ calls = 0
  /\ source = Null
  /\ first = Null
  /\ generated = Null
  /\ generator = NewGenerator
  /\ subject \in XmlStrings \cup MathElements
  /\ rendered = Null
  /\ host = Null

\* the host calls generate(subject) on its CellMLTextGenerator
GenerateText ==
  /\ rendered = Null
  /\ subject \in XmlStrings
  /\ rendered' = [class |-> "text", returned |-> Str(generateCall(generator, subject).returned)]
  /\ generator' = generateCall(generator, subject).fields
  /\ UNCHANGED <<sourceLineAttr, scanner, doc, stack, ret, result, calls, source, first,
                 generated, subject, host>>

\* the host calls convert(subject) on a CellMLLatexGenerator of either class
Convert ==
  /\ rendered = Null
  /\ subject \in MathElements
  /\ \E class \in LatexGenerators :
       rendered' = [class |-> class, returned |-> convert(class, subject)]
  /\ UNCHANGED <<sourceLineAttr, scanner, doc, stack, ret, result, calls, source, first,
                 generated, generator, subject, host>>

RenderNext == GenerateText \/ Convert

RenderSpec == RenderInit /\ [][RenderNext]_vars

(***************************************************************************)
(* One parser and one text generator used again and again, as by an editor *)
(* that parses on every change: up to MaxReuse parse calls on texts of     *)
(* ReuseTexts, and generate calls in between.                              *)
(***************************************************************************)
MaxReuse == 3   \* parse calls on the parser of a host that uses it again

\* a program with every construct, laid out over several lines
RichProgram ==
  <<"def", "model", "m", "as">> \o UnitBlockW
    \o CompW("c", <<"var", "a", ":", "u", "{", "init", ":", "1", "}", ";",
                    "x", "=", "sel", "case", "a", ">", "b", "and", "c", ":", "f", "(", "a", ")",
                    ";", "otherwise", ":", "-", "5", ";", "endsel", ";">>)
    \o <<"enddef", ";">>

\* texts that parse, that fail at once, part-way in a sel block and at the end
ReuseTexts ==
  {Layout(RichProgram, 0),
   Layout(Program(<<"x", "=", "a", "+", "b", ";">>), 0),
   "",
   Layout(SubSeq(RichProgram, 1, 32), 0),
   Layout(Program(<<"x", "=", "(", "a", ";">>), 3)}

\* the host calls parse(text); the outcome of the first call is kept when
\* the second call begins
ParseText ==
  /\ stack = <<>>
  /\ calls < MaxReuse
  /\ \E text \in ReuseTexts :
       /\ parseCall(text)
       /\ source' = IF calls = 0 THEN Str(text) ELSE source
  /\ first' = IF calls = 1 THEN [result |-> result, doc |-> doc, scanner |-> scanner]
              ELSE first
  /\ UNCHANGED <<generated, renderVars>>

\* the host calls generate on the XML of the last parse, or on a string that
\* is not well-formed
GenerateAgain ==
  /\ stack = <<>>
  /\ calls > 0
  /\ \E xml \in {result.xml, Malformed} \ {Null} :
       /\ subject' = xml
       /\ rendered' = [class |-> "text",
                       returned |-> Str(generateCall(generator, xml).returned)]
       /\ generator' = generateCall(generator, xml).fields
  /\ UNCHANGED <<sourceLineAttr, scanner, doc, stack, ret, result, calls, source, first,
                 generated, host>>

ReuseNext ==
  \/ ParseText
  \/ GenerateAgain
  \/ parse
  \/ parseBlock
  \/ parseComponent
  \/ parseVariable
  \/ parseUnit
  \/ parseMathEquation
  \/ parseCondition
  \/ parseComparison
  \/ parseExpression
  \/ parseTerm
  \/ parseFactor
  \/ parsePiecewise
  \/ parseFunctionCall

ReuseSpec == Init /\ [][ReuseNext]_vars

(***************************************************************************)
(* The demo host (App.vue): an editor whose text is parsed 750 ms after    *)
(* its last change and whose preview shows the equation at the cursor.     *)
(* A timer that is pending fires at some later step; a callback runs to    *)
(* its end before another event is handled, so while parse is running      *)
(* only the parser takes steps.                                            *)
(***************************************************************************)
MaxEdits == 2   \* changes the user makes to the text of the editor

MaxLine == 5    \* lines of the editor the cursor is put on

\* s.split(sep) for a separator of one character
RECURSIVE splitOn(_, _, _)
splitOn(s, sep, from) ==
  LET at == {p \in from..(Len(s) - 1) : CharAt(s, p) = sep}
  IN IF at = {} THEN <<Slice(s, from, Len(s))>>
     ELSE LET p == CHOOSE q \in at : \A r \in at : q <= r
          IN <<Slice(s, from, p)>> \o splitOn(s, sep, p + 1)

\* a JavaScript number: an integer, or NaN, which no comparison holds of
Num(n) == [nan |-> FALSE, value |-> n]

NaN == [nan |-> TRUE, value |-> 0]

\* parseInt(s, 10) without a sign: the number of the leading digits, NaN
\* when there is none
RECURSIVE parseIntFrom(_, _, _)
parseIntFrom(s, p, n) ==
  IF CharAt(s, p) \in Digits
    THEN parseIntFrom(s, p + 1, 10 * n + (CHOOSE d \in 0..9 : ToString(d) = CharAt(s, p)))
  ELSE IF p = 0 THEN NaN
  ELSE Num(n)

parseInt(s) == parseIntFrom(s, 0, 0)

\* a <= b of JavaScript numbers
Leq(a, b) == ~a.nan /\ ~b.nan /\ a.value <= b.value

\* [start, end] of a data-source-location value
LocationRange(loc) ==
  LET parts == splitOn(loc, "-", 0)
      startStr == Part(parts, 0)
      endStr == Part(parts, 1)
      start == parseInt(IF startStr # "" THEN startStr ELSE "0")
  IN [start |-> start, end |-> IF endStr # "" THEN parseInt(endStr) ELSE start]

\* updatePreview whose loop stops at an equation that starts at the cursor line
RECURSIVE bestMatchBefore(_, _)
bestMatchBefore(equations, cursorLine) ==
  IF equations = <<>> THEN Null
  ELSE LET eq == Head(equations)
           loc == getAttribute(eq, "data-source-location")
           range == LocationRange(loc)
       IN IF loc = "" THEN bestMatchBefore(Tail(equations), cursorLine)
          ELSE IF Leq(Num(cursorLine), range.start) THEN Null
          ELSE IF Leq(range.start, Num(cursorLine)) /\ Leq(Num(cursorLine), range.end) THEN eq
          ELSE bestMatchBefore(Tail(equations), cursorLine)

\* the loop of updatePreview over equations: bestMatch when it ends
RECURSIVE bestMatch(_, _)
bestMatch(equations, cursorLine) ==
  IF equations = <<>> THEN Null
  ELSE LET eq == Head(equations)
           loc == getAttribute(eq, "data-source-location")
           range == LocationRange(loc)
       IN IF loc = "" THEN bestMatch(Tail(equations), cursorLine)
          ELSE IF ~range.start.nan /\ range.start.value > cursorLine THEN Null
          ELSE IF Leq(range.start, Num(cursorLine)) /\ Leq(Num(cursorLine), range.end) THEN eq
          ELSE bestMatch(Tail(equations), cursorLine)

\* the apply elements of a document, in document order
ApplyElements(currentDoc) ==
  SelectNodes(<<currentDoc.documentElement>> \o Descendants(currentDoc.documentElement),
              AnyNS, "apply")

\* latexPreview after updatePreview(); a convert that throws leaves it
updatePreview(currentDoc, cursorLine, latexPreview) ==
  IF currentDoc = Null THEN latexPreview
  ELSE LET match == bestMatch(ApplyElements(currentDoc), cursorLine)
           latex == convert("lib", match)
       IN IF match = Null THEN ""
          ELSE IF latex.type = "string" THEN latex.value
          ELSE latexPreview

\* the texts the user gives the editor: two equations over three lines, a
\* text with every construct, a text that does not parse
HostTexts ==
  {Layout(Program(<<"x", "=", "a", "+", "b", ";", "y", "=", "b", ";">>), 11),
   Layout(RichProgram, 0),
   Layout(Program(<<"x", "=", "(", "a", ";">>), 0)}

\* the XML the host starts with and the XML onMounted loads
HostXmls == {MathModel(SelChildren), MathModel(<<>>)}

\* the watcher of textOutput for a new value: the pending timer is cleared
\* and, unless the change comes from the XML, a timer is set for newVal
watchTextOutput(h, newVal) ==
  [h EXCEPT !.textOutput = newVal,
            !.debouncer = IF h.isUpdatingFromXml THEN Null ELSE Str(newVal)]

\* the watcher of xmlInput when watchers are flushed: nothing for a value it
\* has seen or while isUpdatingFromXml, else the text generated from the XML
\* becomes the text of the editor
watchXmlInput(h, g) ==
  LET seen == [h EXCEPT !.xmlWatched = h.xmlInput]
      Regenerated(call) ==
        [host |-> IF call.returned # h.textOutput THEN watchTextOutput(seen, call.returned)
                  ELSE seen,
         generator |-> call.fields]
  IN IF h.xmlInput = h.xmlWatched \/ h.isUpdatingFromXml THEN [host |-> seen, generator |-> g]
     ELSE Regenerated(generateCall(g, h.xmlInput))

\* the host after setup for an XML: the watcher of xmlInput has run at once
Setup(xml) ==
  watchXmlInput([textOutput |-> "", xmlInput |-> xml, xmlWatched |-> Null,
                 isUpdatingFromXml |-> FALSE, debouncer |-> Null, reset |-> FALSE,
                 cursorLine |-> 1, latexPreview |-> "", currentDoc |-> Null, errors |-> <<>>,
                 running |-> "", mounted |-> FALSE, edits |-> 0],
                NewGenerator)

HostInit ==
  /\ sourceLineAttr = Constructor([sourceLineAttribute |-> Undefined])
  /\ scanner = Null
  /\ doc = Null
  /\ stack = <<>>
  /\ ret = Null
  /\ result = Null
  /\ calls = 0
  /\ source = Null
  /\ first = Null
  /\ generated = Null
  /\ subject = Null
  /\ rendered = Null
  /\ \E xml \in HostXmls : \E setup \in {Setup(xml)} :
       /\ host = setup.host
       /\ generator = setup.generator

\* no callback of the host is running
Idle == stack = <<>> /\ host.running = ""

\* the user changes the text of the editor: handleStateUpdate sets the cursor
\* line and updates the preview, then the watcher of textOutput runs
Edit ==
  /\ Idle
  /\ host.edits < MaxEdits
  /\ \E text \in HostTexts \ {host.textOutput}, line \in 1..MaxLine :
       host' = [watchTextOutput(host, text) EXCEPT
                  !.cursorLine = line,
                  !.latexPreview = updatePreview(host.currentDoc, line, host.latexPreview),
                  !.edits = host.edits + 1]
  /\ UNCHANGED <<sourceLineAttr, scanner, doc, stack, ret, result, calls, source, first,
                 generated, generator, subject, rendered>>

\* the user moves the cursor: handleStateUpdate
MoveCursor ==
  /\ Idle
  /\ \E line \in (1..MaxLine) \ {host.cursorLine} :
       host' = [host EXCEPT
                  !.cursorLine = line,
                  !.latexPreview = updatePreview(host.currentDoc, line, host.latexPreview)]
  /\ UNCHANGED <<sourceLineAttr, scanner, doc, stack, ret, result, calls, source, first,
                 generated, generator, subject, rendered>>

\* the 750 ms timer fires: its callback calls parser.parse(newVal)
DebounceFires ==
  /\ Idle
  /\ host.debouncer # Null
  /\ parseCall(host.debouncer.value)
  /\ host' = [host EXCEPT !.debouncer = Null, !.running = "debounce"]
  /\ UNCHANGED <<source, first, generated, generator, subject, rendered>>

\* parse has returned to the callback of the 750 ms timer: the errors are
\* shown and, on success, the XML and the document are taken over, the
\* 100 ms timer is set, the watcher of xmlInput runs and returns, and the
\* preview is updated
DebounceReturns ==
  /\ stack = <<>>
  /\ host.running = "debounce"
  /\ host' =
       IF result.errors = <<>> /\ result.xml # Null
         THEN [host EXCEPT
                 !.errors = result.errors,
                 !.isUpdatingFromXml = TRUE,
                 !.xmlInput = result.xml,
                 !.xmlWatched = result.xml,
                 !.currentDoc = doc,
                 !.reset = TRUE,
                 !.latexPreview = updatePreview(doc, host.cursorLine, host.latexPreview),
                 !.running = ""]
       ELSE [host EXCEPT !.errors = result.errors, !.running = ""]
  /\ UNCHANGED <<sourceLineAttr, scanner, doc, stack, ret, result, calls, source, first,
                 generated, generator, subject, rendered>>

\* the 100 ms timer fires
ResetFires ==
  /\ Idle
  /\ host.reset
  /\ host' = [host EXCEPT !.isUpdatingFromXml = FALSE, !.reset = FALSE]
  /\ UNCHANGED <<sourceLineAttr, scanner, doc, stack, ret, result, calls, source, first,
                 generated, generator, subject, rendered>>

\* onMounted goes on after libcellml is ready: it loads an XML and calls
\* parser.parse(textOutput.value)
onMounted ==
  /\ Idle
  /\ ~host.mounted
  /\ parseCall(host.textOutput)
  /\ \E xml \in HostXmls :
       host' = [host EXCEPT !.xmlInput = xml, !.mounted = TRUE, !.running = "onMounted"]
  /\ UNCHANGED <<source, first, generated, generator, subject, rendered>>

\* parse has returned to onMounted: the document is taken over, then the
\* watcher of xmlInput runs
onMountedReturns ==
  /\ stack = <<>>
  /\ host.running = "onMounted"
  /\ \E flushed \in {watchXmlInput([host EXCEPT !.currentDoc = doc, !.running = ""],
                                    generator)} :
       /\ host' = flushed.host
       /\ generator' = flushed.generator
  /\ UNCHANGED <<sourceLineAttr, scanner, doc, stack, ret, result, calls, source, first,
                 generated, subject, rendered>>

HostNext ==
  \/ Edit
  \/ MoveCursor
  \/ DebounceFires
  \/ DebounceReturns
  \/ ResetFires
  \/ onMounted
  \/ onMountedReturns
  \/ parse
  \/ parseBlock
  \/ parseComponent
  \/ parseVariable
  \/ parseUnit
  \/ parseMathEquation
  \/ parseCondition
  \/ parseComparison
  \/ parseExpression
  \/ parseTerm
  \/ parseFactor
  \/ parsePiecewise
  \/ parseFunctionCall

HostSpec == HostInit /\ [][HostNext]_vars

\* a timer that is pending fires, and a callback that is running goes on to
\* its end (parse returns on every text the host of this model hands it);
\* the user and the loading of libcellml are under no obligation
FairHostSpec ==
  /\ HostSpec
  /\ WF_vars(DebounceFires)
  /\ WF_vars(ResetFires)
  /\ []<>Idle

(***************************************************************************)
(* The grammar of CellML Text: a recognizer of the token sequence of a     *)
(* text.  A result is [ok, at, spans]: at is the index of the next token   *)
(* when ok and of the first token that violates the grammar otherwise;     *)
(* spans lists the first and last line of every statement recognized.      *)
(***************************************************************************)
\* the tokens of what is left of the input, EOF included
RECURSIVE ScanAll(_)
ScanAll(sc) ==
  IF sc.currentToken = "EOF"
    THEN <<[type |-> "EOF", value |-> "", line |-> sc.line]>>
    ELSE <<[type |-> sc.currentToken, value |-> sc.currentValue, line |-> sc.line]>>
           \o ScanAll(nextToken(sc))

Tokens(text) == ScanAll(NewScanner(text))

GAt(i) == [ok |-> TRUE, at |-> i, spans |-> <<>>]

\* the next token has the type, and for a non-empty value also the value
GToken(ts, r, type, value) ==
  IF ~r.ok THEN r
  ELSE IF ts[r.at].type = type /\ (value = "" \/ ts[r.at].value = value)
    THEN [r EXCEPT !.at = r.at + 1]
  ELSE [r EXCEPT !.ok = FALSE]

RECURSIVE GTokens(_, _, _)
GTokens(ts, r, types) ==
  IF types = <<>> THEN r ELSE GTokens(ts, GToken(ts, r, Head(types), ""), Tail(types))

Is(ts, r, types) == r.ok /\ ts[r.at].type \in types

Skip(r) == [r EXCEPT !.at = r.at + 1]

RECURSIVE GFactor(_, _), GTerm(_, _), GExpression(_, _), GComparison(_, _), GCondition(_, _)
RECURSIVE GTermRest(_, _), GExpressionRest(_, _), GConditionRest(_, _)
RECURSIVE GArgListRest(_, _), GCases(_, _)

\* ArgList := (Expression (',' Expression)*)?
GArgListRest(ts, r) ==
  IF Is(ts, r, {"OpComma"}) THEN GArgListRest(ts, GExpression(ts, Skip(r))) ELSE r

GArgList(ts, r) ==
  IF Is(ts, r, {"RParam"}) THEN r ELSE GArgListRest(ts, GExpression(ts, r))

\* PiecewiseBody := (case Condition ':' Expression ';')* (otherwise ':' Expression ';')?
GCases(ts, r) ==
  IF Is(ts, r, {"KwCase"})
    THEN GCases(ts, GToken(ts, GExpression(ts, GToken(ts, GCondition(ts, Skip(r)),
                                                     "Colon", "")), "SemiColon", ""))
  ELSE IF Is(ts, r, {"KwOtherwise"})
    THEN GToken(ts, GExpression(ts, GToken(ts, Skip(r), "Colon", "")), "SemiColon", "")
  ELSE r

GFactor(ts, r) ==
  IF Is(ts, r, {"OpMinus"}) THEN GFactor(ts, Skip(r))
  ELSE IF Is(ts, r, {"Number"}) THEN
    IF Is(ts, Skip(r), {"LBrace"})
      THEN GTokens(ts, GToken(ts, Skip(Skip(r)), "Identifier", "units"),
                   <<"Colon", "Identifier", "RBrace">>)
      ELSE Skip(r)
  ELSE IF Is(ts, r, {"Identifier"}) THEN
    IF Is(ts, Skip(r), {"LParam"})
      THEN GToken(ts, GArgList(ts, Skip(Skip(r))), "RParam", "")
      ELSE Skip(r)
  ELSE IF Is(ts, r, {"LParam"}) THEN GToken(ts, GExpression(ts, Skip(r)), "RParam", "")
  ELSE IF Is(ts, r, {"KwSel"}) THEN GToken(ts, GCases(ts, Skip(r)), "KwEndSel", "")
  ELSE [r EXCEPT !.ok = FALSE]

GTermRest(ts, r) ==
  IF Is(ts, r, {"OpTimes", "OpDivide"}) THEN GTermRest(ts, GFactor(ts, Skip(r))) ELSE r

GTerm(ts, r) == GTermRest(ts, GFactor(ts, r))

GExpressionRest(ts, r) ==
  IF Is(ts, r, {"OpPlus", "OpMinus"}) THEN GExpressionRest(ts, GTerm(ts, Skip(r))) ELSE r

GExpression(ts, r) == GExpressionRest(ts, GTerm(ts, r))

GComparison(ts, r) ==
  IF Is(ts, GExpression(ts, r), {"OpEq", "OpNe", "OpLt", "OpLe", "OpGt", "OpGe"})
    THEN GExpression(ts, Skip(GExpression(ts, r)))
    ELSE GExpression(ts, r)

GConditionRest(ts, r) ==
  IF Is(ts, r, {"OpAnd", "OpOr"}) THEN GConditionRest(ts, GComparison(ts, Skip(r))) ELSE r

GCondition(ts, r) == GConditionRest(ts, GComparison(ts, r))

\* MathStatement := Expression '=' Expression ';'
GMathStatement(ts, r) ==
  LET end == GToken(ts, GExpression(ts, GToken(ts, GExpression(ts, r), "OpAss", "")),
                    "SemiColon", "")
  IN IF end.ok
       THEN [end EXCEPT !.spans = Append(@, [first |-> ts[r.at].line,
                                             last |-> ts[end.at - 1].line])]
       ELSE end

\* Prop := Identifier ':' ( '-'? Number | Identifier )
GProp(ts, r) ==
  LET colon == GTokens(ts, r, <<"Identifier", "Colon">>)
  IN IF Is(ts, colon, {"OpMinus"}) THEN GToken(ts, Skip(colon), "Number", "")
     ELSE IF Is(ts, colon, {"Number"}) THEN Skip(colon)
     ELSE GToken(ts, colon, "Identifier", "")

RECURSIVE GPropsRest(_, _)
GPropsRest(ts, r) ==
  IF Is(ts, r, {"OpComma"}) THEN GPropsRest(ts, GProp(ts, Skip(r))) ELSE r

\* Variable := 'var' Identifier ':' Identifier PropBlock? ';'
GVariable(ts, r) ==
  LET units == GTokens(ts, r, <<"KwVar", "Identifier", "Colon", "Identifier">>)
  IN IF Is(ts, units, {"LBrace"})
       THEN GTokens(ts, GPropsRest(ts, GProp(ts, Skip(units))), <<"RBrace", "SemiColon">>)
       ELSE GToken(ts, units, "SemiColon", "")

\* (Variable | MathStatement)* 'enddef' ';'
RECURSIVE GComponentBody(_, _)
GComponentBody(ts, r) ==
  IF ~r.ok THEN r
  ELSE IF Is(ts, r, {"KwEndDef"}) THEN GTokens(ts, r, <<"KwEndDef", "SemiColon">>)
  ELSE IF Is(ts, r, {"KwVar"}) THEN GComponentBody(ts, GVariable(ts, r))
  ELSE GComponentBody(ts, GMathStatement(ts, r))

\* Unit: opaque, consumed to 'enddef' ';'
RECURSIVE GUnitBody(_, _)
GUnitBody(ts, r) ==
  IF Is(ts, r, {"KwEndDef", "EOF"}) THEN GTokens(ts, r, <<"KwEndDef", "SemiColon">>)
  ELSE IF r.ok THEN GUnitBody(ts, Skip(r))
  ELSE r

\* Block := 'def' ( Component | Unit )
GBlock(ts, r) ==
  IF Is(ts, Skip(r), {"KwComp"})
    THEN GComponentBody(ts, GTokens(ts, Skip(r), <<"KwComp", "Identifier", "KwAs">>))
  ELSE IF Is(ts, Skip(r), {"KwUnit"}) THEN GUnitBody(ts, Skip(Skip(r)))
  ELSE [Skip(r) EXCEPT !.ok = FALSE]

RECURSIVE GBlocks(_, _)
GBlocks(ts, r) == IF Is(ts, r, {"KwDef"}) THEN GBlocks(ts, GBlock(ts, r)) ELSE r

\* Model := 'def' 'model' Identifier? 'as' Block* 'enddef' ';', then the end
GModel(ts) ==
  LET model == GTokens(ts, GAt(1), <<"KwDef", "KwModel">>)
      name == IF Is(ts, model, {"Identifier"}) THEN Skip(model) ELSE model
  IN GTokens(ts, GBlocks(ts, GToken(ts, name, "KwAs", "")),
             <<"KwEndDef", "SemiColon", "EOF">>)

Derivable(text) == GModel(Tokens(text)).ok

\* the line of the first token of a text that violates the grammar, 0 when
\* there is none
ViolationLine(text) ==
  IF Derivable(text) THEN 0 ELSE Tokens(text)[GModel(Tokens(text)).at].line

(***************************************************************************)
(* Properties                                                              *)
(***************************************************************************)
\* a parse call has returned
Returned == calls > 0 /\ stack = <<>>

\* the first parse call, of the text source, has returned
ReturnedFirst == Returned /\ calls = 1

Succeeded == Returned /\ result.xml # Null

\* a node and its descendants in document order
Nodes(root) == <<root>> \o Descendants(root)

RECURSIVE Kids(_)
Kids(nodes) == IF nodes = <<>> THEN <<>> ELSE Head(nodes).kids \o Kids(Tail(nodes))

\* the top-level equations of a document, in document order
EquationApplies(root) == Kids(getElementsByTagNameNS(root, MATHML_NS, "math"))

\* the attribute names used for source locations
LocationNames ==
  {Constructor(o).value : o \in {p \in Options : Truthy(Constructor(p))}}

\* the step the running function takes next
NextStep ==
  CASE In("parse") -> parseStep
    [] In("parseBlock") -> parseBlockStep
    [] In("parseComponent") -> parseComponentStep
    [] In("parseVariable") -> parseVariableStep
    [] In("parseUnit") -> parseUnitStep
    [] In("parseMathEquation") -> parseMathEquationStep
    [] In("parseCondition") -> FoldStep({"OpAnd", "OpOr"}, "parseComparison", ConditionTag)
    [] In("parseComparison") -> parseComparisonStep
    [] In("parseExpression") -> FoldStep({"OpPlus", "OpMinus"}, "parseTerm", ExpressionTag)
    [] In("parseTerm") -> FoldStep({"OpTimes", "OpDivide"}, "parseFactor", TermTag)
    [] In("parseFactor") -> parseFactorStep
    [] In("parsePiecewise") -> parsePiecewiseStep
    [] In("parseFunctionCall") -> parseFunctionCallStep

\* C1: every parse call that returns yields either a non-null XML text with an
\* empty error list, or a null xml with exactly one error {line, message}
ResultShape ==
  Returned =>
    \/ result.xml # Null /\ result.xml.type = "xml" /\ result.errors = <<>>
    \/ /\ result.xml = Null
       /\ Len(result.errors) = 1
       /\ DOMAIN result.errors[1] = {"line", "message"}

\* a successful parse has been followed by one that failed, or a first parse failed
ResultShapeWitness ==
  /\ Returned
  /\ result.xml = Null
  /\ Len(result.errors) = 1
  /\ result.errors[1].line > 1

\* C2: every parse call terminates: a call that is running can always take a
\* step that changes the state, in particular at the end of the input inside
\* a component body or inside the braces that follow a number
ParseTerminates == stack # <<>> => NextStep # Cur

\* C3: a text that the grammar does not derive yields xml = null and exactly
\* one error, whose line is the line of the first token that violates the
\* grammar
InvalidTextRejected ==
  (ReturnedFirst /\ ~Derivable(source.value)) =>
    /\ result.xml = Null
    /\ Len(result.errors) = 1
    /\ result.errors[1].line = ViolationLine(source.value)

\* C4: a text that the grammar derives yields a non-null xml and no error
WellFormedTextAccepted ==
  (ReturnedFirst /\ Derivable(source.value)) =>
    result.xml # Null /\ result.errors = <<>>

SpanText(span) ==
  IF span.first = span.last THEN ToString(span.first)
  ELSE ToString(span.first) \o "-" \o ToString(span.last)

\* the nodes of a tree that have one of the attributes
Carriers(root, names) ==
  {i \in DOMAIN Nodes(root) : \E name \in names : hasAttribute(Nodes(root)[i], name)}

\* C6: after a successful parse with a non-empty sourceLineAttribute, the
\* top-level equation applies and no other node carry the attribute; its value
\* is S for a statement whose first token and ';' are on line S, and S-E for
\* one that starts on line S and whose ';' is on line E; with a null or empty
\* sourceLineAttribute no node carries a location attribute
LocationSpansStatement ==
  (ReturnedFirst /\ result.xml # Null /\ Derivable(source.value)) =>
    LET root == doc.documentElement
        eqs == EquationApplies(root)
        spans == GModel(Tokens(source.value)).spans
    IN IF Truthy(sourceLineAttr)
         THEN /\ Len(eqs) = Len(spans)
              /\ \A i \in DOMAIN eqs :
                   /\ hasAttribute(eqs[i], sourceLineAttr.value)
                   /\ getAttribute(eqs[i], sourceLineAttr.value) = SpanText(spans[i])
              /\ Cardinality(Carriers(root, {sourceLineAttr.value})) = Len(eqs)
         ELSE Carriers(root, LocationNames) = {}

\* the words of a text: its tokens without the parentheses
RECURSIVE Unparenthesized(_)
Unparenthesized(ts) ==
  IF ts = <<>> THEN <<>>
  ELSE (IF Head(ts).type \in {"LParam", "RParam", "EOF"} THEN <<>>
        ELSE <<[type |-> Head(ts).type, value |-> Head(ts).value]>>)
         \o Unparenthesized(Tail(ts))

Words(text) == Unparenthesized(Tokens(text))

\* the keys of the properties and annotations of the supported subset
KnownKeys == {"init", "interface", "units", "prefix", "exponent", "multiplier"}

\* every key of a braced property list is a known one
KnownKeysOnly(ts) ==
  \A i \in 2..(Len(ts) - 1) :
    (ts[i].type = "Identifier" /\ ts[i + 1].type = "Colon"
       /\ ts[i - 1].type \in {"LBrace", "OpComma"}) => ts[i].value \in KnownKeys

\* C7: the text generated from the XML of a parse of a text of the supported
\* grammar subset is the text up to white space and formatting: the same
\* words in the same order, nothing lost and nothing renamed
RoundTrip ==
  (calls = 1 /\ generated # Null /\ Derivable(source.value)
     /\ KnownKeysOnly(Tokens(source.value))) =>
    Words(generated.value) = Words(source.value)

PiecewiseTexts == {Layout(Program(body), 0) : body \in PiecewiseBodies}

\* the right-hand side of the first equation of a document
FirstRhs(d) == EquationApplies(d.documentElement)[1].kids[3]

\* C8: for an equation whose right-hand side is a sel block, the parse of the
\* text generated from its XML yields the same piecewise element: the same
\* pieces, value first and condition second, and the same otherwise
PiecewiseRoundTrip ==
  (Returned /\ calls = 2 /\ source.value \in PiecewiseTexts) =>
    /\ result.xml # Null
    /\ FirstRhs(doc).tag = "piecewise"
    /\ FirstRhs(doc) = FirstRhs(first.doc)

\* MathML elements written out
Leaf(tag, text) == [ns |-> MATHML_NS, tag |-> tag, attrs |-> <<>>, text |-> text, kids |-> <<>>]

Apply(kids) == [ns |-> MATHML_NS, tag |-> "apply", attrs |-> <<>>, text |-> "", kids |-> kids]

Operand(token) == Leaf(IF token.type = "Number" THEN "cn" ELSE "ci", token.value)

OperatorTag(type) ==
  CASE type = "OpPlus" -> "plus" [] type = "OpMinus" -> "minus"
    [] type = "OpTimes" -> "times" [] type = "OpDivide" -> "divide"

\* the tree of operand (op operand)* by precedence and left associativity: the
\* last + or - splits the expression, and where there is none the last * or /
RECURSIVE Precedence(_)
Precedence(e) ==
  LET additive == {i \in DOMAIN e : e[i].type \in {"OpPlus", "OpMinus"}}
      multiplicative == {i \in DOMAIN e : e[i].type \in {"OpTimes", "OpDivide"}}
      Last(S) == CHOOSE i \in S : \A j \in S : j <= i
      Split(i) == Apply(<<Leaf(OperatorTag(e[i].type), ""),
                          Precedence(SubSeq(e, 1, i - 1)),
                          Precedence(SubSeq(e, i + 1, Len(e)))>>)
  IN IF additive # {} THEN Split(Last(additive))
     ELSE IF multiplicative # {} THEN Split(Last(multiplicative))
     ELSE Operand(e[1])

\* the tokens between the first '=' and the first ';' of a token sequence
FirstOf(ts, type) == CHOOSE i \in DOMAIN ts : ts[i].type = type /\ \A j \in 1..(i - 1) : ts[j].type # type

RhsTokens(ts) == SubSeq(ts, FirstOf(ts, "OpAss") + 1, FirstOf(ts, "SemiColon") - 1)

ArithTexts == {Layout(Program(body), 0) : body \in ArithBodies}

\* C9: * and / bind tighter than + and -, and both levels are
\* left-associative: a + b * c parses to apply(plus, a, apply(times, b, c))
\* and a - b - c to apply(minus, apply(minus, a, b), c)
PrecedenceAndAssociativity ==
  (ReturnedFirst /\ source.value \in ArithTexts) =>
    /\ result.xml # Null
    /\ FirstRhs(doc) = Precedence(RhsTokens(Tokens(source.value)))

\* x = a + b * c; has been parsed to apply(plus, a, apply(times, b, c))
PrecedenceWitness ==
  /\ ReturnedFirst
  /\ source.value = Layout(Program(<<"x", "=", "a", "+", "b", "*", "c", ";">>), 0)
  /\ FirstRhs(doc) = Apply(<<Leaf("plus", ""), Leaf("ci", "a"),
                            Apply(<<Leaf("times", ""), Leaf("ci", "b"), Leaf("ci", "c")>>)>>)

\* n one-argument minus applies around a node
RECURSIVE Negated(_, _)
Negated(n, node) ==
  IF n = 0 THEN node ELSE Apply(<<Leaf("minus", ""), Negated(n - 1, node)>>)

\* the trees of NegOperands
OperandTree(X) ==
  IF Len(X) = 1 THEN Leaf(IF X[1] = "a" THEN "ci" ELSE "cn", X[1])
  ELSE Apply(<<Leaf("plus", ""), Leaf("ci", "a"), Leaf("ci", "b")>>)

\* the factor that follows the words pre of a statement, in its right-hand side
FactorAfter(pre, rhs) == IF Len(pre) = 2 THEN rhs ELSE rhs.kids[3]

\* C10: n >= 1 consecutive '-' followed by an operand X parse to n nested
\* one-argument apply(minus, ...) around X, and the number literal does not
\* contain the sign
UnaryMinusChains ==
  ReturnedFirst =>
    \A pre \in {<<"x", "=">>, <<"x", "=", "b", "-">>, <<"x", "=", "b", "*">>} :
      \A n \in 1..MaxNeg : \A X \in NegOperands :
        source.value = Layout(Program(pre \o Minuses(n) \o X \o <<";">>), 0) =>
          /\ result.xml # Null
          /\ FactorAfter(pre, FirstRhs(doc)) = Negated(n, OperandTree(X))

\* x = - - 5; has been parsed to apply(minus, apply(minus, cn(5)))
UnaryMinusWitness ==
  /\ ReturnedFirst
  /\ source.value = Layout(Program(<<"x", "=", "-", "-", "5", ";">>), 0)
  /\ FirstRhs(doc) = Apply(<<Leaf("minus", ""), Apply(<<Leaf("minus", ""), Leaf("cn", "5")>>)>>)

\* an identifier the LaTeX generators write as it is
Plain(name) == ~includes(name, "_") /\ toLowerCase(name) \notin greek

\* the text generate makes of a model m with one component c and one statement
OneStatement(statement) ==
  "def model m as\n  def comp c as\n    " \o statement \o "\n  enddef;\nenddef;\n"

\* C11: ode(V, t) parses to apply(diff, bvar(ci t), ci V); the text generated
\* from that tree is exactly ode(V, t); and for identifiers V and t without
\* underscores or Greek names every CellMLLatexGenerator renders the tree as
\* \frac{dV}{dt}
DerivativeRoundTrip ==
  \A dep \in OdeNames, indep \in OdeNames :
    (ReturnedFirst /\ source.value = Layout(Program(OdeBody(dep, indep)), 0)) =>
      /\ result.xml # Null
      /\ FirstRhs(doc) = Apply(<<Leaf("diff", ""),
                                [Leaf("bvar", "") EXCEPT !.kids = <<Leaf("ci", indep)>>],
                                Leaf("ci", dep)>>)
      /\ generated # Null =>
           generated.value = OneStatement("x = ode(" \o dep \o ", " \o indep \o ");")
      /\ (Plain(dep) /\ Plain(indep)) =>
           \A class \in LatexGenerators :
             convert(class, FirstRhs(doc)) = Str("\\frac{d" \o dep \o "}{d" \o indep \o "}")

\* x = ode(Vm, time); has been parsed and its text generated
DerivativeRoundTripWitness ==
  /\ calls = 1
  /\ source.value = Layout(Program(OdeBody("Vm", "time")), 0)
  /\ generated # Null
  /\ generated.value = OneStatement("x = ode(Vm, time);")
  /\ convert("precedence", FirstRhs(doc)) = Str("\\frac{dVm}{dtime}")

\* the value a property is written with
WrittenValue(prop) == IF prop[3] = "-" THEN "-" \o prop[4] ELSE prop[3]

\* the value of the last property of a list with a key, Null without one
LastValue(ps, key) ==
  LET at == {i \in DOMAIN ps : ps[i][1] = key}
  IN IF at = {} THEN Null ELSE Str(WrittenValue(ps[CHOOSE i \in at : \A j \in at : j <= i]))

\* the attributes of a variable declaration, as a set of name and value
DeclaredAttrs(d) ==
  {[name |-> "name", value |-> d.name], [name |-> "units", value |-> d.units]}
    \cup {[name |-> "initial_value", value |-> LastValue(d.props, "init").value] :
            x \in {y \in {1} : LastValue(d.props, "init") # Null}}
    \cup {[name |-> "interface", value |-> LastValue(d.props, "interface").value] :
            x \in {y \in {1} : LastValue(d.props, "interface") # Null}}

\* C13: var N: U {props}; in a component gives exactly one variable element
\* with name=N and units=U; init: v sets initial_value=v, a leading '-' kept;
\* interface: v sets interface=v; a property with another key is consumed
\* without an attribute and without an error
VariableDeclarations ==
  \A d \in VarDecls :
    (ReturnedFirst /\ source.value = Layout(Program(VarDeclBody(d)), 0)) =>
      LET variables == getElementsByTagName(doc.documentElement, "variable")
      IN /\ result.xml # Null
         /\ result.errors = <<>>
         /\ Len(variables) = 1
         /\ variables[1].ns = CELLML_NS
         /\ Len(variables[1].attrs) = Cardinality(DeclaredAttrs(d))
         /\ {variables[1].attrs[i] : i \in DOMAIN variables[1].attrs} = DeclaredAttrs(d)
         /\ doc.documentElement.kids[1].kids = variables

\* var a: u {foo: bar, init: -65}; has been parsed to a variable with
\* initial_value -65 and no attribute foo
VariableDeclarationsWitness ==
  /\ ReturnedFirst
  /\ source.value = Layout(Program(<<"var", "a", ":", "u", "{", "foo", ":", "bar", ",",
                                     "init", ":", "-", "65", "}", ";">>), 0)
  /\ result.xml # Null
  /\ getAttribute(doc.documentElement.kids[1].kids[1], "initial_value") = "-65"
  /\ ~hasAttribute(doc.documentElement.kids[1].kids[1], "foo")

\* C14: the program of the README's quick start, whose model and component
\* headers have no 'as', is accepted: no errors and a non-null xml
QuickStartAccepted ==
  (ReturnedFirst /\ source.value = QuickStart) => result.errors = <<>> /\ result.xml # Null

\* the words of an expression without parentheses as tokens
WordTokens(ws) ==
  [i \in DOMAIN ws |->
     [type |-> CASE ws[i] = "+" -> "OpPlus" [] ws[i] = "-" -> "OpMinus"
                 [] ws[i] = "*" -> "OpTimes" [] ws[i] = "/" -> "OpDivide"
                 [] CharAt(ws[i], 0) \in Digits -> "Number" [] OTHER -> "Identifier",
      value |-> ws[i]]]

CmpTag(op) ==
  CASE op = "==" -> "eq" [] op = "!=" -> "neq" [] op = "<" -> "lt" [] op = "<=" -> "leq"
    [] op = ">" -> "gt" [] op = ">=" -> "geq"

\* the tree of a comparison: the expression itself without an operator, and
\* apply(tag, left, right) with one
ComparisonTree(ws) ==
  LET at == {i \in DOMAIN ws : ws[i] \in CmpOps}
      i == CHOOSE j \in at : TRUE
  IN IF at = {} THEN Precedence(WordTokens(ws))
     ELSE Apply(<<Leaf(CmpTag(ws[i]), ""), Precedence(WordTokens(SubSeq(ws, 1, i - 1))),
                  Precedence(WordTokens(SubSeq(ws, i + 1, Len(ws))))>>)

\* the tree of a chain of comparisons folded left to right: the last and/or
\* is the outermost apply
RECURSIVE ConditionTree(_)
ConditionTree(ws) ==
  LET at == {i \in DOMAIN ws : ws[i] \in {"and", "or"}}
      last == CHOOSE i \in at : \A j \in at : j <= i
  IN IF at = {} THEN ComparisonTree(ws)
     ELSE Apply(<<Leaf(ws[last], ""), ConditionTree(SubSeq(ws, 1, last - 1)),
                  ComparisonTree(SubSeq(ws, last + 1, Len(ws)))>>)

\* the condition of the first case of the sel block of the first equation
FirstCondition(d) == FirstRhs(d).kids[1].kids[2]

\* C19: a comparison without an operator is its operand, without an apply
\* around it; with ==, !=, <, <=, >, >= it is apply(eq|neq|lt|leq|gt|geq,
\* left, right); a chain of and/or folds left to right with equal precedence
ConditionParsing ==
  \A c \in ChainConditions :
    (ReturnedFirst /\ source.value = Layout(Program(ConditionBody(c)), 0)) =>
      /\ result.xml # Null
      /\ FirstCondition(doc) = ConditionTree(c)

\* case a or b and c has been parsed to and(or(a, b), c)
ConditionParsingWitness ==
  /\ ReturnedFirst
  /\ source.value = Layout(Program(ConditionBody(<<"a", "or", "b", "and", "c">>)), 0)
  /\ FirstCondition(doc) =
       Apply(<<Leaf("and", ""),
               Apply(<<Leaf("or", ""), Leaf("ci", "a"), Leaf("ci", "b")>>), Leaf("ci", "c")>>)

\* the first k operands as ci elements
Operands(k) == [i \in 1..k |-> Leaf("ci", OperandNames[i])]

Bvar(node) == [Leaf("bvar", "") EXCEPT !.kids = <<node>>]

\* C20: ode( with exactly two arguments (dep, indep) gives apply(diff,
\* bvar(indep), dep) with the children in that order; ode with another
\* number of arguments makes the parse fail with one error; another
\* identifier f with (a1, ..., an), n >= 0, gives apply(f, a1, ..., an) with
\* the arguments in source order
FunctionCalls ==
  ReturnedFirst =>
    /\ \A k \in 0..(MaxArgs + 1) :
         source.value = Layout(Program(CallBody("ode", k)), 0) =>
           IF k = 2
             THEN /\ result.xml # Null
                  /\ FirstRhs(doc) = Apply(<<Leaf("diff", ""), Bvar(Leaf("ci", "b")),
                                             Leaf("ci", "a")>>)
             ELSE result.xml = Null /\ Len(result.errors) = 1
    /\ \A f \in CallNames \ {"ode"}, k \in 0..MaxArgs :
         source.value = Layout(Program(CallBody(f, k)), 0) =>
           /\ result.xml # Null
           /\ FirstRhs(doc) = Apply(<<Leaf(f, "")>> \o Operands(k))
    /\ source.value = Layout(Program(<<"x", "=", "f", "(", "a", "+", "1", ",", "b", "*", "2",
                                       ")", ";">>), 0) =>
         /\ result.xml # Null
         /\ FirstRhs(doc) =
              Apply(<<Leaf("f", ""),
                      Apply(<<Leaf("plus", ""), Leaf("ci", "a"), Leaf("cn", "1")>>),
                      Apply(<<Leaf("times", ""), Leaf("ci", "b"), Leaf("cn", "2")>>)>>)
    /\ source.value = Layout(Program(<<"x", "=", "ode", "(", "V", ",", "t", "+", "b", ")",
                                       ";">>), 0) =>
         /\ result.xml # Null
         /\ FirstRhs(doc) =
              Apply(<<Leaf("diff", ""),
                      Bvar(Apply(<<Leaf("plus", ""), Leaf("ci", "t"), Leaf("ci", "b")>>)),
                      Leaf("ci", "V")>>)

\* x = ode(a, b); has been parsed to apply(diff, bvar(ci b), ci a)
FunctionCallsWitness ==
  /\ ReturnedFirst
  /\ source.value = Layout(Program(CallBody("ode", 2)), 0)
  /\ result.xml # Null
  /\ FirstRhs(doc).kids[1].tag = "diff"
  /\ FirstRhs(doc).kids[2] = Bvar(Leaf("ci", "b"))
  /\ FirstRhs(doc).kids[3] = Leaf("ci", "a")

\* the number of line feeds of s before the 0-based position p
RECURSIVE LineFeeds(_, _)
LineFeeds(s, p) ==
  IF p <= 0 THEN 0 ELSE LineFeeds(s, p - 1) + (IF CharAt(s, p - 1) = "\n" THEN 1 ELSE 0)

\* the position at which the current token starts, the end of the input for EOF
TokenStart(sc) ==
  IF sc.currentToken = "EOF" THEN Len(sc.input) ELSE sc.pos - Len(sc.currentValue)

\* C17: after the constructor and after every nextToken() the line is 1 plus
\* the number of line feeds before the start of the current token (before the
\* end of the input at EOF); the line feed that ends a // comment is counted
\* and the token on the line after a comment is the next token
ScannerLine ==
  /\ scanner.line = 1 + LineFeeds(scanner.input, TokenStart(scanner))
  /\ scanner.currentToken # "EOF" =>
       /\ TokenStart(scanner) >= 0
       /\ Slice(scanner.input, TokenStart(scanner), scanner.pos) = scanner.currentValue

\* nextToken() has gone from 1 over a comment and its line feed to y on line 2
ScannerLineWitness ==
  /\ source.value = "1//x\ny"
  /\ scanner.currentToken = "Identifier"
  /\ scanner.currentValue = "y"
  /\ scanner.line = 2

\* the position after the characters of cls from position p on
RECURSIVE After(_, _, _)
After(s, p, cls) == IF CharAt(s, p) \in cls THEN After(s, p + 1, cls) ELSE p

\* digits* ('.' digits*)? (('e' | 'E') ('+' | '-')? digits+)?, not empty
NumberForm(text) ==
  LET int == After(text, 0, Digits)
      frac == IF CharAt(text, int) = "." THEN After(text, int + 1, Digits) ELSE int
      sign == IF CharAt(text, frac + 1) \in {"+", "-"} THEN frac + 2 ELSE frac + 1
      exp == IF CharAt(text, frac) \in {"e", "E"} /\ CharAt(text, sign) \in Digits
               THEN After(text, sign, Digits) ELSE frac
  IN text # "" /\ exp = Len(text)

\* C18: the text of every Number token is optional integer digits, an
\* optional '.' with fraction digits and an optional exponent of e or E, an
\* optional sign and at least one digit; it does not start with '-', and an
\* e or E that no digit follows (1e, 2e+, 2exp) is not part of the number
NumberTokens ==
  scanner.currentToken = "Number" =>
    /\ NumberForm(scanner.currentValue)
    /\ CharAt(scanner.currentValue, 0) # "-"

\* the tag of the operator of an apply, "" for another element
OperatorOf(node) ==
  IF node.tag = "apply" /\ node.kids # <<>> THEN node.kids[1].tag ELSE ""

\* an apply of plus, or of minus with two operands
Additive(node) ==
  \/ OperatorOf(node) = "plus"
  \/ OperatorOf(node) = "minus" /\ Len(node.kids) = 3

\* C12: convert renders apply(minus, a, X) with X inside \left( \right)
\* whenever X is an apply of plus or of binary minus: minus(a, minus(b, c)) is
\* a - \left(b - c\right) and not a - b - c
SubtractionParenthesized ==
  (rendered # Null /\ rendered.class \in LatexGenerators /\ OperatorOf(subject) = "minus"
     /\ Len(subject.kids) = 3 /\ Additive(subject.kids[3])) =>
    /\ rendered.returned.type = "string"
    /\ rendered.returned.value =
         convert(rendered.class, subject.kids[2]).value
           \o " - \\left(" \o convert(rendered.class, subject.kids[3]).value \o "\\right)"

\* C16: the generators never throw: generate returns a string for every
\* input, the one line // Error generating text: <message> for XML that is
\* not well-formed or has no CellML 2.0 model; convert returns a string for
\* every element, a math without children and an apply without operands
\* among them
GeneratorsNeverThrow ==
  rendered # Null =>
    /\ rendered.returned.type = "string"
    /\ (rendered.class = "text"
          /\ (subject = Malformed
                 \/ getElementsByTagNameNS(
                      [ns |-> "", tag |-> "#document", attrs |-> <<>>, text |-> "",
                       kids |-> <<parseFromString(subject.root, "")>>],
                      CELLML_NS, "model") = <<>>)) =>
         /\ SubSeq(rendered.returned.value, 1, 26) = "// Error generating text: "
         /\ ~includes(rendered.returned.value, "\n")

\* C15: a parse call on a text returns what the first call of a new parser
\* returned for the text, whatever calls came in between, and a generate
\* call returns what a new generator returns for its input: no scanner
\* position, line, document, output or indent level carries over
ReinvocationIndependent ==
  /\ (Returned /\ calls >= 2 /\ scanner.input = source.value) =>
       /\ result = first.result
       /\ doc = first.doc
       /\ scanner = first.scanner
  /\ (rendered # Null /\ rendered.class = "text") =>
       /\ rendered.returned = Str(generateCall(NewGenerator, subject).returned)
       /\ generator = generateCall(NewGenerator, subject).fields

\* the last call of a parser has parsed the text of its first call again,
\* with the same result, and the generator has generated its text
ReinvocationWitness ==
  /\ Returned
  /\ calls = MaxReuse
  /\ scanner.input = source.value
  /\ source.value = Layout(RichProgram, 0)
  /\ result = first.result
  /\ result.xml # Null
  /\ subject = result.xml
  /\ rendered.returned.value = generate(result.xml)
  /\ generator.output = generate(result.xml)

\* sub occurs in s
Contains(s, sub) == \E i \in 0..(Len(s) - Len(sub)) : Slice(s, i, i + Len(sub)) = sub

\* the source text of the token the scanner is at: none at the end of the input
FoundText == IF scanner.currentToken = "EOF" THEN "" ELSE scanner.currentValue

\* C21: the message of every error parse reports names the expected token
\* kind by its name, and has in quotes the source text of the token found
\* where the parse failed: no numeric token code, and at the end of the input
\* not the text of the token before it
SyntaxErrorMessages ==
  (Returned /\ result.xml = Null) =>
    /\ \E i \in DOMAIN TokenType : Contains(result.errors[1].message, TokenType[i])
    /\ Contains(result.errors[1].message, "'" \o FoundText \o "'")

\* parseNode of a generator class for a node with no parent
Render(class, node) ==
  IF class = "lib" THEN lib_parseNode(node) ELSE latex_parseNode(node, 0)

\* an apply of a comparison or of an operator that is not recognized
Loose(node) == OperatorOf(node) \in RelationalTags \cup UnrecognizedTags

\* an operand as the wrapping rule writes it under plus, minus and times
Wrapped(class, node) ==
  IF Loose(node) THEN "\\left(" \o Render(class, node) \o "\\right)" ELSE Render(class, node)

Separator(op) == CASE op = "plus" -> " + " [] op = "minus" -> " - " [] op = "times" -> " \\cdot "

\* C22: with the precedence table (relational 50, unrecognized 0, plus and
\* minus 60, times 70) an apply is wrapped in \left( \right) when its own
\* precedence is less than the one its parent asks for: a comparison (eq, neq,
\* lt, leq, gt, geq) or an apply of an unrecognized operator that is an
\* operand of plus, minus or times is rendered inside \left( \right)
WrappingRule ==
  (rendered # Null /\ rendered.class \in LatexGenerators
     /\ OperatorOf(subject) \in {"plus", "minus", "times"} /\ Len(subject.kids) = 3
     /\ (\A i \in 2..3 : Loose(subject.kids[i]) \/ subject.kids[i].tag = "ci")
     /\ (\E i \in 2..3 : Loose(subject.kids[i]))) =>
    rendered.returned =
      Str(Wrapped(rendered.class, subject.kids[2]) \o Separator(OperatorOf(subject))
            \o Wrapped(rendered.class, subject.kids[3]))

\* a top-level child as convert writes it: an equation with a single =
TopLevel(class, child) ==
  IF OperatorOf(child) = "eq"
    THEN Render(class, Child(child, 1)) \o " = " \o Render(class, Child(child, 2))
    ELSE Render(class, child)

\* the eq applies below the top level of a math element
NestedEqs(math) ==
  LET below == Kids(Kids(<<math>>)) \o Kids(Kids(Kids(<<math>>)))
                 \o Kids(Kids(Kids(Kids(<<math>>))))
  IN {i \in DOMAIN below : OperatorOf(below[i]) = "eq"}

\* C23: convert of a math element renders every top-level child on its own
\* and joins the results with line feeds, one line per equation in document
\* order; a top-level apply(eq, lhs, rhs) is rendered as lhs = rhs and an eq
\* apply below the top level with ==
MathRootRendering ==
  (rendered # Null /\ rendered.class \in LatexGenerators /\ subject.tag = "math") =>
    /\ rendered.returned =
         Str(Join([i \in 1..Len(subject.kids) |-> TopLevel(rendered.class, subject.kids[i])],
                  "\n"))
    /\ subject \in MathRoots =>
         /\ NestedEqs(subject) # {}
         /\ Contains(rendered.returned.value, "a == b")

\* C27: convert renders apply(minus, X) with X inside \left( \right) when X
\* is an apply of plus or of binary minus: minus(plus(a, b)) is not written
\* -a + b, the string plus(minus(a), b) is written as
UnaryMinusParenthesized ==
  (rendered # Null /\ rendered.class \in LatexGenerators /\ OperatorOf(subject) = "minus"
     /\ Len(subject.kids) = 2 /\ Additive(subject.kids[2])) =>
    /\ rendered.returned =
         Str("-\\left(" \o Render(rendered.class, subject.kids[2]) \o "\\right)")
    /\ rendered.returned #
         convert(rendered.class,
                 MathApply(<<subject.kids[2].kids[1],
                             MathApply(<<MathElement("minus", "", <<>>),
                                         subject.kids[2].kids[2]>>),
                             subject.kids[2].kids[3]>>))

\* the lines of a text: the pieces between line feeds, without the empty
\* piece after a last line feed
RECURSIVE LinesFrom(_, _)
LinesFrom(s, from) ==
  IF from >= Len(s) THEN <<>>
  ELSE LET feeds == {p \in from..(Len(s) - 1) : CharAt(s, p) = "\n"}
       IN IF feeds = {} THEN <<Slice(s, from, Len(s))>>
          ELSE LET p == CHOOSE q \in feeds : \A r \in feeds : q <= r
               IN <<Slice(s, from, p)>> \o LinesFrom(s, p + 1)

Lines(s) == LinesFrom(s, 0)

Blank(line) == Trim(line) = ""

RECURSIVE NonBlank(_)
NonBlank(lines) ==
  IF lines = <<>> THEN <<>>
  ELSE (IF Blank(Head(lines)) THEN <<>> ELSE <<Head(lines)>>) \o NonBlank(Tail(lines))

\* the CellML 2.0 model elements of an XML string
ModelsOf(xml) ==
  IF xml = Malformed THEN <<>>
  ELSE SelectNodes(Nodes(parseFromString(xml.root, "")), {CELLML_NS}, "model")

\* the blocks of a model: one for every units element that is a child of the
\* model, then one for every component below the model, in document order
Blocks(model) ==
  LET units == SelectNodes(model.kids, AnyNS, "units")
      components == SelectNodes(Descendants(model), AnyNS, "component")
  IN [i \in 1..Len(units) |-> processUnits(units[i], 1)]
       \o [i \in 1..Len(components) |-> processComponent(components[i], 1)]

ModelHeader(model) ==
  "def model "
    \o (IF getAttribute(model, "name") # "" THEN getAttribute(model, "name")
        ELSE "unnamed_model")
    \o " as"

\* C24: generate writes def model <name> as, then a block for every units
\* element that is a child of the model (units deeper in the tree are left
\* out), then a block for every component below the model in document order,
\* then enddef; and between the last block and that closing line there is
\* exactly one blank line, however many blocks there are
ModelLayout ==
  (rendered # Null /\ rendered.class = "text" /\ ModelsOf(subject) # <<>>) =>
    LET model == ModelsOf(subject)[1]
        lines == Lines(rendered.returned.value)
        n == Len(lines)
    IN /\ lines[1] = ModelHeader(model)
       /\ lines[n] = "enddef;"
       /\ NonBlank(lines) =
            NonBlank(<<ModelHeader(model)>> \o Lines(Concat(Blocks(model))) \o <<"enddef;">>)
       /\ Blocks(model) # <<>> => (n >= 3 /\ Blank(lines[n - 1]) /\ ~Blank(lines[n - 2]))

\* the line of a statement at an indent level for a child of a math element:
\* lhs = rhs; for an apply of eq and the expression with ; for another child,
\* and no line for an empty expression when those are skipped
StatementLine(child, level, skipEmpty) ==
  LET expr == IF OperatorOf(child) = "eq"
                THEN gen_parseMathNode(Child(child, 1), level) \o " = "
                       \o gen_parseMathNode(Child(child, 2), level)
                ELSE gen_parseMathNode(child, level)
  IN IF skipEmpty /\ expr = "" THEN "" ELSE indent(level) \o expr \o ";\n"

\* the text of MathModel(children) with a statement line for every child
StatementsText(xml, skipEmpty) ==
  LET math == ModelsOf(xml)[1].kids[1].kids[1]
  IN "def model m as\n  def comp c as\n"
       \o Concat([i \in 1..Len(math.kids) |-> StatementLine(math.kids[i], 2, skipEmpty)])
       \o "  enddef;\nenddef;\n"

\* C25 as stated: for every child of a math element, in document order, an
\* apply whose first child is eq is written as <lhs> = <rhs>; from its second
\* and third child, every other child as its expression followed by ; and an
\* eq apply inside an expression is written with ==
EveryChildAStatement ==
  (rendered # Null /\ rendered.class = "text" /\ subject \in MathModels) =>
    /\ rendered.returned.value = StatementsText(subject, FALSE)
    /\ subject = MathModel(SelChildren) => Contains(rendered.returned.value, "case a == b: 5;")

\* C25: as above, and a child that is not an equation and whose expression is
\* empty (a bvar, an apply without children, a ci without text) is written
\* as no line at all
StatementReconstruction ==
  (rendered # Null /\ rendered.class = "text" /\ subject \in MathModels) =>
    /\ rendered.returned.value = StatementsText(subject, TRUE)
    /\ subject = MathModel(SelChildren) => Contains(rendered.returned.value, "case a == b: 5;")

\* the math with a compound left-hand side, an identifier and a sel block has
\* been written as three statements
StatementReconstructionWitness ==
  /\ rendered # Null
  /\ subject = MathModel(SelChildren)
  /\ Lines(rendered.returned.value) =
       <<"def model m as", "  def comp c as", "    (a + b) = c;", "    y;", "    x = sel",
         "      case a == b: 5;", "    endsel;", "  enddef;", "enddef;">>

\* C26: the text that generate writes for the XML of a successful parse is
\* parsed successfully again, with no errors
GeneratedTextParses ==
  (Returned /\ calls = 2) => (result.xml # Null /\ result.errors = <<>>)

\* the elements whose attributes the parser sets from the text
AttributedTags == {"model", "component", "variable", "cn"}

\* C28: under every sourceLineAttribute setting, every attribute the parser
\* set on a model, component, variable or cn element is in the returned XML,
\* in the order of the tree: serialization leaves out the location tag of the
\* equations and nothing else
AttributesSerialized ==
  Succeeded =>
    \A i \in DOMAIN Nodes(doc.documentElement) :
      LET node == Nodes(doc.documentElement)[i]
          written == Nodes(result.xml.root)[i]
      IN node.tag \in AttributedTags =>
           /\ Len(written.attrs) >= Len(node.attrs)
           /\ SubSeq(written.attrs, 1, Len(node.attrs)) = node.attrs

Tagged(eq) == getAttribute(eq, "data-source-location") # ""

\* the ranges of the tagged apply elements of a document, in document order
TaggedRanges(currentDoc) ==
  LET tagged == SelectSeq(ApplyElements(currentDoc), Tagged)
  IN [i \in 1..Len(tagged) |->
        LocationRange(getAttribute(tagged[i], "data-source-location"))]

Within(range, line) == Leq(range.start, Num(line)) /\ Leq(Num(line), range.end)

\* C29: in the document of a successful parse that the host has taken over,
\* every tagged apply has start <= end, the start lines do not decrease in
\* document order, and for every cursor line that is within the range of a
\* tagged apply the loop of updatePreview ends with an apply whose range
\* holds the cursor line
EquationAtCursor ==
  (Succeeded /\ host.currentDoc = doc) =>
    LET ranges == TaggedRanges(doc)
    IN /\ \A i \in DOMAIN ranges : Leq(ranges[i].start, ranges[i].end)
       /\ \A i, j \in DOMAIN ranges : i < j => Leq(ranges[i].start, ranges[j].start)
       /\ \A line \in 1..MaxLine :
            (\E i \in DOMAIN ranges : Within(ranges[i], line)) =>
              LET match == bestMatch(ApplyElements(doc), line)
              IN /\ match # Null
                 /\ Within(LocationRange(getAttribute(match, "data-source-location")), line)

\* the cursor is on the line of the second of two equations, the first of
\* which takes two lines, and the preview shows the second
EquationAtCursorWitness ==
  /\ Succeeded
  /\ host.currentDoc = doc
  /\ host.running = ""
  /\ TaggedRanges(doc) = <<[start |-> Num(3), end |-> Num(4)], [start |-> Num(5), end |-> Num(5)]>>
  /\ host.cursorLine = 5
  /\ host.latexPreview = "y = b"

\* C30: whatever the order of the edits and of the two timers, once the user
\* stops editing the text of the editor is passed to parser.parse, also when
\* the edit came while isUpdatingFromXml was true: from some point on the
\* text the parser was last given is the text of the editor
LastEditParsed == <>[](scanner # Null /\ scanner.input = host.textOutput)

====
